---- MODULE Spec2Model ----
(***************************************************************************)
(* A model of the bookstore catalog API (django-api): the api_* tables,    *)
(* the auth_user and authtoken_token tables, and one action per request    *)
(* handler.  A handler is the Django REST framework pipeline as the        *)
(* viewsets and settings configure it: authentication                      *)
(* (TokenAuthentication), view permissions (IsAuthenticatedOrReadOnly),   *)
(* object lookup (404), object permissions (403), serializer validation    *)
(* (400), and the write to the store, where the database enforces the      *)
(* unique and foreign-key constraints of models.py.                        *)
(*                                                                         *)
(* Scope: the throttle rates of settings.py (100/day anonymous, 1000/day   *)
(* per user) are never exhausted; text fields that no modelled handler     *)
(* branches on (biography, description, isbn, ...) are left out; requests  *)
(* authenticate with a token, with a session cookie or not at all; a token *)
(* key, 20 random bytes, is never generated twice.                         *)
(***************************************************************************)
EXTENDS Integers, Sequences, FiniteSets, TLC

(***************************************************************************)
(* Bounds of the model.                                                    *)
(***************************************************************************)
MaxUsers == 2       \* users the catalog specification starts with
MaxRaters == 3      \* users the rating specification starts with
MaxBooks == 2       \* books the catalog specification starts with
MaxReviewId == 3    \* api_review ids the sequence hands out
MaxBookId == 2      \* api_book ids the sequence hands out
MaxAuthorId == 2    \* api_author ids the sequence hands out
MaxCategoryId == 2  \* api_category ids the sequence hands out
MaxPublisherId == 2 \* api_publisher ids the sequence hands out
MaxKey == 3         \* token keys that are ever generated
MaxPending == 2     \* review POSTs in flight at once
MaxUserId == 2      \* auth_user ids the sequence hands out
MaxShelf == 11      \* books the shelf specification starts with
MaxShelfRaters == 5 \* users the shelf specification starts with
MaxAttempts == 3    \* connection attempts of wait_for_db that are counted

VARIABLES
    users,       \* auth_user: id -> [username, email, password, is_active]
    tokens,      \* authtoken_token: set of [key, user]; key is the primary key
    nextKey,     \* the next key Token.generate_key() returns (keys never repeat)
    authors,     \* api_author: id -> [email, first_name, last_name]
    categories,  \* api_category: id -> [name]
    publishers,  \* api_publisher: id -> [name]
    books,       \* api_book: id -> [author, publisher, categories, status]
    reviews,     \* api_review: id -> [book, user, rating, title, comment]
    nextId,      \* the id sequences: table name -> next id
    pending,     \* review POSTs that passed validation and have not saved yet
    cache,       \* the cache_page store of GET /books/: key -> entry
    response,    \* the response to the last request handled
    database,    \* whether the database accepts connections: "up" or "down"
    script       \* the run of scripts/wait_for_db.py: [pc, attempts]

authVars == <<users, tokens, nextKey>>
catalogVars == <<authors, categories, publishers, books>>
deployVars == <<database, script>>
vars == <<users, tokens, nextKey, authors, categories, publishers, books,
          reviews, nextId, pending, cache, response, database, script>>

(***************************************************************************)
(* Values.                                                                 *)
(***************************************************************************)
AnonymousUser == 0          \* request.user of a request without credentials
NoRow == 0                  \* SQL NULL in a key column
SAFE_METHODS == {"GET", "HEAD", "OPTIONS"}
STATUS_CHOICES == {"available", "out_of_stock", "coming_soon"}

NoCredentials == [kind |-> "none", key |-> 0]
Credentials ==
    {NoCredentials} \cup {[kind |-> "token", key |-> k] : k \in 1..MaxKey}

\* make_password / check_password: the stored value is a salted hash, never
\* the raw password; two raw passwords check equal iff they are the same.
Hash(raw) == <<"pbkdf2_sha256", raw>>
CheckPassword(raw, stored) == stored = Hash(raw)

Without(f, ids) == [x \in DOMAIN f \ ids |-> f[x]]
With(f, id, row) == [x \in DOMAIN f \cup {id} |-> IF x = id THEN row ELSE f[x]]

(***************************************************************************)
(* Authentication and the view-level permission.                           *)
(***************************************************************************)
\* TokenAuthentication.authenticate, then SessionAuthentication.  A key
\* that is not in the token table, or whose user is inactive, fails
\* authentication.  Without an Authorization header the session cookie
\* decides: it names a user and carries the hash of the password it was
\* opened with (/api/auth/login/, the admin site); a session whose user is
\* gone or inactive, or has another password by now, leaves the request
\* anonymous, as no credentials do.  The CSRF token is sent with a session.
Authenticate(cred) ==
    IF cred.kind = "none"
    THEN [ok |-> TRUE, user |-> AnonymousUser]
    ELSE IF cred.kind = "session"
    THEN IF /\ cred.key \in DOMAIN users
            /\ users[cred.key].is_active
            /\ users[cred.key].password = cred.hash
         THEN [ok |-> TRUE, user |-> cred.key]
         ELSE [ok |-> TRUE, user |-> AnonymousUser]
    ELSE LET hit == {t \in tokens : t.key = cred.key} IN
         IF hit = {} THEN [ok |-> FALSE, user |-> AnonymousUser]
         ELSE LET t == CHOOSE x \in hit : TRUE IN
              IF t.user \in DOMAIN users /\ users[t.user].is_active
              THEN [ok |-> TRUE, user |-> t.user]
              ELSE [ok |-> FALSE, user |-> AnonymousUser]

\* AllowAny.has_permission
AllowAny(method, user) == TRUE

\* IsAuthenticatedOrReadOnly.has_permission
IsAuthenticatedOrReadOnly(method, user) ==
    method \in SAFE_METHODS \/ user # AnonymousUser

\* IsAuthenticated.has_permission
IsAuthenticated(user) == user # AnonymousUser

\* IsAuthorOrReadOnly.has_object_permission: obj.author is an Author row and
\* request.user a User row; model instances of different models are never
\* equal, whatever their primary keys.  No viewset lists this class.
IsAuthorOrReadOnly(method, user, obj) ==
    method \in SAFE_METHODS \/ <<"Author", obj.author>> = <<"User", user>>

\* An object permission that looks at the method alone.
IsAuthenticatedObject(method, user, obj) ==
    method \in SAFE_METHODS \/ user # AnonymousUser

\* IsReviewOwnerOrReadOnly.has_object_permission
IsReviewOwnerOrReadOnly(method, user, obj) ==
    method \in SAFE_METHODS \/ obj.user = user

\* APIView.initial for the viewsets: 0 when the request may proceed, else
\* the status of the refusal.  The first authenticator sends a
\* WWW-Authenticate header, so both a failed authentication and a refused
\* anonymous request are 401.
Gate(cred, method) ==
    LET a == Authenticate(cred) IN
    IF ~a.ok THEN 401
    ELSE IF ~IsAuthenticatedOrReadOnly(method, a.user) THEN 401
    ELSE 0

\* What the client saw of the last request: the request (operation, method,
\* credentials, the id in the URL, the body sent) and the response (status,
\* the fields with an error, the body).
Exchange(op, method, cred, target, sent, status, errors, body) ==
    [op |-> op, method |-> method, cred |-> cred, target |-> target,
     sent |-> sent, status |-> status, errors |-> errors, body |-> body]
NoBody == [none |-> TRUE]
Resp(op, method, cred, status, target, errors, body) ==
    Exchange(op, method, cred, target, NoBody, status, errors, body)

(***************************************************************************)
(* The aggregate annotations of BookViewSet.queryset.                      *)
(***************************************************************************)
RECURSIVE SumRatings(_)
SumRatings(ids) ==
    IF ids = {} THEN 0
    ELSE LET r == CHOOSE x \in ids : TRUE IN
         reviews[r].rating + SumRatings(ids \ {r})

\* Book LEFT OUTER JOIN Review ON review.book_id = book.id, for one book: a
\* row per review of the book, or one row with a NULL review when it has none.
JoinRows(b) ==
    LET rs == {r \in DOMAIN reviews : reviews[r].book = b} IN
    IF rs = {} THEN {[book |-> b, review |-> NoRow]}
    ELSE {[book |-> b, review |-> r] : r \in rs}

\* COUNT(*) in place of COUNT(api_review.id): the NULL row counts too.
CountJoinRows(b) == Cardinality(JoinRows(b))

\* Count('reviews'): COUNT(api_review.id) counts the rows whose id is not NULL.
CountReviews(b) ==
    Cardinality({row \in JoinRows(b) : row.review # NoRow})

\* A float is kept as the exact quotient num/den it was computed from.
Null == [null |-> TRUE, num |-> 0, den |-> 1]
Quotient(n, d) == [null |-> FALSE, num |-> n, den |-> d]
SameNumber(x, y) ==
    /\ x.null = y.null
    /\ ~x.null => x.num * y.den = y.num * x.den

\* round(x, 2): the nearest multiple of 1/100.
Round2(x) ==
    IF x.null THEN x
    ELSE Quotient((200 * x.num + x.den) \div (2 * x.den), 100)

\* The average rounded to two places where it is computed.
AvgRatingRounded(b) ==
    LET rs == {row.review : row \in JoinRows(b)} \ {NoRow} IN
    IF rs = {} THEN Null
    ELSE Round2(Quotient(SumRatings(rs), Cardinality(rs)))

\* Avg('reviews__rating'): AVG over the non-NULL ratings of the join rows,
\* NULL when there is none.
AvgRating(b) ==
    LET rs == {row.review : row \in JoinRows(b)} \ {NoRow} IN
    IF rs = {} THEN Null
    ELSE Quotient(SumRatings(rs), Cardinality(rs))

\* BookDetailSerializer: reviews_count and average_rating are read-only
\* IntegerField / FloatField fed by the annotations.
BookDetail(b) ==
    [id |-> b, author |-> books[b].author, publisher |-> books[b].publisher,
     categories |-> books[b].categories, status |-> books[b].status,
     reviews_count |-> CountReviews(b), average_rating |-> AvgRating(b)]

\* BookListSerializer: average_rating is a read-only FloatField.
BookListItem(b) ==
    [id |-> b, status |-> books[b].status,
     average_rating |-> AvgRating(b)]

(***************************************************************************)
(* ReviewSerializer.                                                       *)
(***************************************************************************)
ReviewFields == {"book", "rating", "title", "comment"}

\* The serializer without validate_rating and the validators of Review.rating.
ValidateReviewAnyRating(p, partial) ==
    LET missing == IF partial THEN {} ELSE ReviewFields \ p.has
        bad ==
            {f \in p.has :
                \/ f = "book" /\ p.book \notin DOMAIN books
                \/ f = "title" /\ p.title = ""
                \/ f = "comment" /\ p.comment = ""}
    IN missing \cup bad

\* Field validation of a payload p = [has, book, rating, title, comment],
\* where has is the set of fields the request body carries.  The result is
\* the set of fields with an error.
ValidateReview(p, partial) ==
    LET missing == IF partial THEN {} ELSE ReviewFields \ p.has
        bad ==
            {f \in p.has :
                \/ f = "book" /\ p.book \notin DOMAIN books
                \/ f = "rating" /\ ~(1 <= p.rating /\ p.rating <= 5)
                \/ f = "title" /\ p.title = ""
                \/ f = "comment" /\ p.comment = ""}
    IN missing \cup bad

\* An update under a serializer whose user field is writable.
MergeReviewWritableUser(old, p) ==
    [book |-> IF "book" \in p.has THEN p.book ELSE old.book,
     user |-> IF "user" \in p.has THEN p.user ELSE old.user,
     rating |-> IF "rating" \in p.has THEN p.rating ELSE old.rating,
     title |-> IF "title" \in p.has THEN p.title ELSE old.title,
     comment |-> IF "comment" \in p.has THEN p.comment ELSE old.comment]

\* The row an update leaves: the fields of the payload over the instance's.
\* user is read_only in the serializer, so a "user" in the body is dropped.
MergeReview(old, p) ==
    [book |-> IF "book" \in p.has THEN p.book ELSE old.book,
     user |-> old.user,
     rating |-> IF "rating" \in p.has THEN p.rating ELSE old.rating,
     title |-> IF "title" \in p.has THEN p.title ELSE old.title,
     comment |-> IF "comment" \in p.has THEN p.comment ELSE old.comment]

\* A review table without the unique constraint.
NoUniqueConstraint(row, self) == TRUE

\* unique_together = ['book', 'user'], as the database checks it on INSERT
\* and UPDATE: no other row has the same (book, user).
UniqueBookUser(row, self) ==
    \A r \in DOMAIN reviews \ {self} :
        ~(reviews[r].book = row.book /\ reviews[r].user = row.user)

\* The foreign keys of api_review, as the database checks them.
ReviewKeysExist(row) ==
    row.book \in DOMAIN books /\ row.user \in DOMAIN users

(***************************************************************************)
(* ReviewViewSet.                                                          *)
(***************************************************************************)
Respond(r) == response' = r

\* ReviewSerializer.create under perform_create: the user of the new row is
\* request.user, whatever the body says.
NewReview(user, p) ==
    [book |-> p.book, user |-> user, rating |-> p.rating,
     title |-> p.title, comment |-> p.comment]

\* INSERT INTO api_review: the database refuses a row that breaks the unique
\* (book, user) constraint or a foreign key (IntegrityError, which no
\* handler catches: a 500), else the row is stored under the next id.
InsertReview(cred, sent, row) ==
    IF UniqueBookUser(row, NoRow) /\ ReviewKeysExist(row)
    THEN /\ nextId.review <= MaxReviewId
         /\ reviews' = With(reviews, nextId.review, row)
         /\ nextId' = [nextId EXCEPT !.review = @ + 1]
         /\ Respond(Exchange("review_create", "POST", cred, nextId.review, sent,
                              201, {}, NoBody))
    ELSE /\ UNCHANGED <<deployVars, reviews, nextId>>
         /\ Respond(Exchange("review_create", "POST", cred, NoRow, sent,
                              500, {}, NoBody))

\* POST /reviews/, handled without another request in between.
ReviewCreate(cred, p) ==
    LET a == Authenticate(cred)
        errs == ValidateReview(p, FALSE)
    IN /\ UNCHANGED <<deployVars, authVars, catalogVars, pending, cache>>
       /\ IF Gate(cred, "POST") # 0
          THEN /\ UNCHANGED <<reviews, nextId>>
               /\ Respond(Exchange("review_create", "POST", cred, NoRow, p, 401, {}, NoBody))
          ELSE IF errs # {}
          THEN /\ UNCHANGED <<reviews, nextId>>
               /\ Respond(Exchange("review_create", "POST", cred, NoRow, p, 400, errs, NoBody))
          ELSE InsertReview(cred, p, NewReview(a.user, p))

\* POST /reviews/ up to the end of serializer.is_valid(): a request that
\* passes waits in pending for its save.
ReviewCreateValidate(cred, p) ==
    LET a == Authenticate(cred)
        errs == ValidateReview(p, FALSE)
    IN /\ Len(pending) < MaxPending
       /\ UNCHANGED <<deployVars, authVars, catalogVars, reviews, nextId, cache>>
       /\ IF Gate(cred, "POST") # 0
          THEN /\ UNCHANGED pending
               /\ Respond(Exchange("review_create", "POST", cred, NoRow, p, 401, {}, NoBody))
          ELSE IF errs # {}
          THEN /\ UNCHANGED pending
               /\ Respond(Exchange("review_create", "POST", cred, NoRow, p, 400, errs, NoBody))
          ELSE /\ pending' = Append(pending, [cred |-> cred, sent |-> p, row |-> NewReview(a.user, p)])
               /\ UNCHANGED response

\* The serializer.save() of a waiting POST /reviews/.
ReviewCreateSave(i) ==
    /\ i \in 1..Len(pending)
    /\ InsertReview(pending[i].cred, pending[i].sent, pending[i].row)
    /\ pending' = [j \in 1..(Len(pending) - 1) |->
                      IF j < i THEN pending[j] ELSE pending[j + 1]]
    /\ UNCHANGED <<deployVars, authVars, catalogVars, cache>>

\* PUT (partial = FALSE) or PATCH (partial = TRUE) /reviews/{id}/
ReviewUpdate(cred, id, p, partial) ==
    LET a == Authenticate(cred)
        method == IF partial THEN "PATCH" ELSE "PUT"
        errs == ValidateReview(p, partial)
        R(status, e) == Exchange("review_update", method, cred, id, p, status, e, NoBody)
    IN /\ UNCHANGED <<deployVars, authVars, catalogVars, nextId, pending, cache>>
       /\ IF Gate(cred, method) # 0
          THEN UNCHANGED reviews /\ Respond(R(401, {}))
          ELSE IF id \notin DOMAIN reviews
          THEN UNCHANGED reviews /\ Respond(R(404, {}))
          ELSE IF ~IsReviewOwnerOrReadOnly(method, a.user, reviews[id])
          THEN UNCHANGED reviews /\ Respond(R(403, {}))
          ELSE IF errs # {}
          THEN UNCHANGED reviews /\ Respond(R(400, errs))
          ELSE LET row == MergeReview(reviews[id], p) IN
               IF UniqueBookUser(row, id) /\ ReviewKeysExist(row)
               THEN reviews' = With(reviews, id, row) /\ Respond(R(200, {}))
               ELSE UNCHANGED reviews /\ Respond(R(500, {}))

\* DELETE /reviews/{id}/
ReviewDestroy(cred, id) ==
    LET a == Authenticate(cred)
        R(status) == Resp("review_destroy", "DELETE", cred, status, id, {}, NoBody)
    IN /\ UNCHANGED <<deployVars, authVars, catalogVars, nextId, pending, cache>>
       /\ IF Gate(cred, "DELETE") # 0
          THEN UNCHANGED reviews /\ Respond(R(401))
          ELSE IF id \notin DOMAIN reviews
          THEN UNCHANGED reviews /\ Respond(R(404))
          ELSE IF ~IsReviewOwnerOrReadOnly("DELETE", a.user, reviews[id])
          THEN UNCHANGED reviews /\ Respond(R(403))
          ELSE reviews' = Without(reviews, {id}) /\ Respond(R(204))

\* ReviewViewSet.get_queryset: any non-empty my_reviews value filters on
\* request.user; filtering on the AnonymousUser object raises TypeError
\* (it is no auth_user row and has no id).  raised stands for the exception.
ReviewQueryset(user, my_reviews) ==
    IF my_reviews # ""
    THEN IF user = AnonymousUser
         THEN [raised |-> TRUE, ids |-> {}]
         ELSE [raised |-> FALSE,
               ids |-> {r \in DOMAIN reviews : reviews[r].user = user}]
    ELSE [raised |-> FALSE, ids |-> DOMAIN reviews]

\* GET /reviews/?my_reviews=...
ReviewList(cred, my_reviews) ==
    LET a == Authenticate(cred)
        q == ReviewQueryset(a.user, my_reviews)
        R(status, ids) == Resp("review_list", "GET", cred, status, NoRow, {},
                               [my_reviews |-> my_reviews, ids |-> ids])
    IN /\ UNCHANGED <<deployVars, authVars, catalogVars, reviews, nextId, pending, cache>>
       /\ IF Gate(cred, "GET") # 0 THEN Respond(R(401, {}))
          ELSE IF q.raised THEN Respond(R(500, {}))
          ELSE Respond(R(200, q.ids))

\* GET /reviews/{id}/?my_reviews=...
ReviewRetrieve(cred, id, my_reviews) ==
    LET a == Authenticate(cred)
        q == ReviewQueryset(a.user, my_reviews)
        R(status, ids) == Resp("review_retrieve", "GET", cred, status, id, {},
                               [my_reviews |-> my_reviews, ids |-> ids])
    IN /\ UNCHANGED <<deployVars, authVars, catalogVars, reviews, nextId, pending, cache>>
       /\ IF Gate(cred, "GET") # 0 THEN Respond(R(401, {}))
          ELSE IF q.raised THEN Respond(R(500, {}))
          ELSE IF id \notin q.ids THEN Respond(R(404, {}))
          ELSE Respond(R(200, {id}))

(***************************************************************************)
(* BookViewSet.                                                            *)
(***************************************************************************)
BookFields == {"author_id", "category_ids", "publisher_id", "status"}

\* BookDetailSerializer on a payload p = [has, author, categories,
\* publisher, status]: author_id and category_ids are required,
\* publisher_id may be absent or null, status must be one of the choices.
ValidateBook(p, partial) ==
    LET missing == IF partial THEN {}
                   ELSE {"author_id", "category_ids"} \ p.has
        bad ==
            {f \in p.has :
                \/ f = "author_id" /\ p.author \notin DOMAIN authors
                \/ f = "category_ids" /\ ~(p.categories \subseteq DOMAIN categories)
                \/ f = "publisher_id" /\ p.publisher # NoRow
                                      /\ p.publisher \notin DOMAIN publishers
                \/ f = "status" /\ p.status \notin STATUS_CHOICES}
    IN missing \cup bad

\* Book.status has default='available'; Book.publisher is null=True.
NewBook(p) ==
    [author |-> p.author,
     categories |-> p.categories,
     publisher |-> IF "publisher_id" \in p.has THEN p.publisher ELSE NoRow,
     status |-> IF "status" \in p.has THEN p.status ELSE "available"]

MergeBook(old, p) ==
    [author |-> IF "author_id" \in p.has THEN p.author ELSE old.author,
     categories |-> IF "category_ids" \in p.has THEN p.categories ELSE old.categories,
     publisher |-> IF "publisher_id" \in p.has THEN p.publisher ELSE old.publisher,
     status |-> IF "status" \in p.has THEN p.status ELSE old.status]

\* A book delete that leaves the reviews.
NoReviews(bs) == {}

\* on_delete=CASCADE of Review.book: the reviews that go with a set of books.
ReviewsOfBooks(bs) == {r \in DOMAIN reviews : reviews[r].book \in bs}

\* POST /books/
BookCreate(cred, p) ==
    LET errs == ValidateBook(p, FALSE)
        R(status, id, e) == Exchange("book_create", "POST", cred, id, p, status, e, NoBody)
    IN /\ UNCHANGED <<deployVars, authVars, authors, categories, publishers, reviews, pending, cache>>
       /\ IF Gate(cred, "POST") # 0
          THEN UNCHANGED <<books, nextId>> /\ Respond(R(401, NoRow, {}))
          ELSE IF errs # {}
          THEN UNCHANGED <<books, nextId>> /\ Respond(R(400, NoRow, errs))
          ELSE /\ nextId.book <= MaxBookId
               /\ books' = With(books, nextId.book, NewBook(p))
               /\ nextId' = [nextId EXCEPT !.book = @ + 1]
               /\ Respond(R(201, nextId.book, {}))

\* PUT / PATCH /books/{id}/: permission_classes is [IsAuthenticatedOrReadOnly]
\* alone, so the object permission check passes for every caller.
BookUpdate(cred, id, p, partial) ==
    LET method == IF partial THEN "PATCH" ELSE "PUT"
        errs == ValidateBook(p, partial)
        R(status, e) == Exchange("book_update", method, cred, id, p, status, e, NoBody)
    IN /\ UNCHANGED <<deployVars, authVars, authors, categories, publishers, reviews, nextId, pending, cache>>
       /\ IF Gate(cred, method) # 0
          THEN UNCHANGED books /\ Respond(R(401, {}))
          ELSE IF id \notin DOMAIN books
          THEN UNCHANGED books /\ Respond(R(404, {}))
          ELSE IF errs # {}
          THEN UNCHANGED books /\ Respond(R(400, errs))
          ELSE books' = With(books, id, MergeBook(books[id], p)) /\ Respond(R(200, {}))

\* DELETE /books/{id}/: the book's reviews go with it.
BookDestroy(cred, id) ==
    LET R(status) == Resp("book_destroy", "DELETE", cred, status, id, {}, NoBody)
    IN /\ UNCHANGED <<deployVars, authVars, authors, categories, publishers, nextId, pending, cache>>
       /\ IF Gate(cred, "DELETE") # 0
          THEN UNCHANGED <<books, reviews>> /\ Respond(R(401))
          ELSE IF id \notin DOMAIN books
          THEN UNCHANGED <<books, reviews>> /\ Respond(R(404))
          ELSE /\ books' = Without(books, {id})
               /\ reviews' = Without(reviews, ReviewsOfBooks({id}))
               /\ Respond(R(204))

\* GET /books/{id}/
BookRetrieve(cred, id) ==
    LET R(status, body) == Resp("book_retrieve", "GET", cred, status, id, {}, body)
    IN /\ UNCHANGED <<deployVars, authVars, catalogVars, reviews, nextId, pending, cache>>
       /\ IF Gate(cred, "GET") # 0 THEN Respond(R(401, NoBody))
          ELSE IF id \notin DOMAIN books THEN Respond(R(404, NoBody))
          ELSE Respond(R(200, BookDetail(id)))

\* The filter backend on ?status=...: "" stands for no parameter.
FilterBooks(status) ==
    {b \in DOMAIN books : status = "" \/ books[b].status = status}

\* A cache key made of the path alone.
CacheKeyOfPath(status) == ""

\* The key cache_page stores a response under: the URL of the request, the
\* query string included (cache_page wraps list, where the response has
\* no Vary header yet).
CacheKey(status) == status

\* GET /books/?status=... under cache_page(60 * 15): a stored response for
\* the same URL is returned as it is; else the list is computed and stored.
BookList(cred, status) ==
    LET R(code, body, hit) == Resp("book_list", "GET", cred, code, NoRow, {},
                                   [status |-> status, items |-> body, cached |-> hit])
        fresh == {BookListItem(b) : b \in FilterBooks(status)}
        key == CacheKey(status)
    IN /\ UNCHANGED <<deployVars, authVars, catalogVars, reviews, nextId, pending>>
       /\ IF Gate(cred, "GET") # 0
          THEN UNCHANGED cache /\ Respond(R(401, {}, FALSE))
          ELSE IF key \in DOMAIN cache
          THEN UNCHANGED cache /\ Respond(R(200, cache[key], TRUE))
          ELSE cache' = With(cache, key, fresh) /\ Respond(R(200, fresh, FALSE))

\* The 15 minutes of a stored list response run out.
CacheExpire(key) ==
    /\ key \in DOMAIN cache
    /\ cache' = Without(cache, {key})
    /\ UNCHANGED <<deployVars, authVars, catalogVars, reviews, nextId, pending, response>>

\* GET /books/{id}/reviews/
BookReviews(cred, id) ==
    LET R(status, ids) == Resp("book_reviews", "GET", cred, status, id, {}, [ids |-> ids])
    IN /\ UNCHANGED <<deployVars, authVars, catalogVars, reviews, nextId, pending, cache>>
       /\ IF Gate(cred, "GET") # 0 THEN Respond(R(401, {}))
          ELSE IF id \notin DOMAIN books THEN Respond(R(404, {}))
          ELSE Respond(R(200, ReviewsOfBooks({id})))

\* GET /books/available/
BookAvailable(cred) ==
    LET R(status, items) == Resp("book_available", "GET", cred, status, NoRow, {},
                                 [items |-> items])
    IN /\ UNCHANGED <<deployVars, authVars, catalogVars, reviews, nextId, pending, cache>>
       /\ IF Gate(cred, "GET") # 0 THEN Respond(R(401, {}))
          ELSE Respond(R(200, {BookDetail(b) : b \in FilterBooks("available")}))

\* ORDER BY review_count DESC, with no further key: ranking holds every
\* book once, by falling number of reviews; books of equal number come in
\* any order.
OrderedByReviews(ranking) ==
    /\ Len(ranking) = Cardinality(DOMAIN books)
    /\ {ranking[i] : i \in 1..Len(ranking)} = DOMAIN books
    /\ \A i \in 1..(Len(ranking) - 1) :
          CountReviews(ranking[i]) >= CountReviews(ranking[i + 1])

\* The orders the database may return: every sequence of the books that is
\* OrderedByReviews, built from the books of most reviews down.
RankingsByReviews ==
    LET count == [b \in DOMAIN books |-> CountReviews(b)]
        RECURSIVE Orders(_)
        Orders(bs) ==
            IF bs = {} THEN {<<>>}
            ELSE UNION {{<<b>> \o rest : rest \in Orders(bs \ {b})} :
                           b \in {x \in bs : \A y \in bs : count[y] <= count[x]}}
    IN Orders(DOMAIN books)

\* A ranking that is not sliced.
WholeRanking(ranking) == ranking

\* [:10]
BestsellersLimit == 10
TopSlice(ranking) ==
    SubSeq(ranking, 1, IF Len(ranking) < BestsellersLimit THEN Len(ranking)
                       ELSE BestsellersLimit)

\* GET /books/bestsellers/: ranking is the order the database returns.
BookBestsellers(cred, ranking) ==
    LET R(status, items) == Resp("book_bestsellers", "GET", cred, status, NoRow, {},
                                 [items |-> items])
        top == TopSlice(ranking)
    IN /\ OrderedByReviews(ranking)
       /\ UNCHANGED <<deployVars, authVars, catalogVars, reviews, nextId, pending, cache>>
       /\ IF Gate(cred, "GET") # 0 THEN Respond(R(401, <<>>))
          ELSE Respond(R(200, [i \in 1..Len(top) |-> BookDetail(top[i])]))

(***************************************************************************)
(* AuthorViewSet, CategoryViewSet, PublisherViewSet.                       *)
(***************************************************************************)
\* An author delete that takes no book with it.
NoBooks(a) == {}

\* The books related to a row: author.books, category.books, publisher.books.
BooksOfAuthor(a) == {b \in DOMAIN books : books[b].author = a}
BooksOfCategory(c) == {b \in DOMAIN books : c \in books[b].categories}
BooksOfPublisher(q) == {b \in DOMAIN books : books[b].publisher = q}

\* COUNT(*) in place of COUNT(api_book.id): the NULL row counts too.
CountBookRows(related) ==
    Cardinality(IF related = {} THEN {NoRow} ELSE related)

\* Count('books'): the table LEFT OUTER JOIN the related books has a row per
\* related book, or one row with a NULL book when there is none;
\* COUNT(api_book.id) counts the rows whose book is not NULL.
CountBooks(related) ==
    Cardinality((IF related = {} THEN {NoRow} ELSE related) \ {NoRow})

\* The serializer without the uniqueness check of the email.
ValidateAuthorAnyEmail(p, partial, self) ==
    IF partial THEN {} ELSE {"email", "first_name", "last_name"} \ p.has

\* AuthorSerializer on p = [has, email, first_name, last_name]: the three
\* fields are required; validate_email refuses an email another author
\* holds (the instance under update may keep its own).
ValidateAuthor(p, partial, self) ==
    LET missing == IF partial THEN {}
                   ELSE {"email", "first_name", "last_name"} \ p.has
        taken == \E a \in DOMAIN authors : authors[a].email = p.email
        bad ==
            {f \in p.has :
                f = "email" /\ taken
                            /\ (self = NoRow \/ authors[self].email # p.email)}
    IN missing \cup bad

MergeAuthor(old, p) ==
    [email |-> IF "email" \in p.has THEN p.email ELSE old.email,
     first_name |-> IF "first_name" \in p.has THEN p.first_name ELSE old.first_name,
     last_name |-> IF "last_name" \in p.has THEN p.last_name ELSE old.last_name]

\* POST /authors/
AuthorCreate(cred, p) ==
    LET errs == ValidateAuthor(p, FALSE, NoRow)
        R(status, id, e) == Exchange("author_create", "POST", cred, id, p, status, e, NoBody)
    IN /\ UNCHANGED <<deployVars, authVars, categories, publishers, books, reviews, pending, cache>>
       /\ IF Gate(cred, "POST") # 0
          THEN UNCHANGED <<authors, nextId>> /\ Respond(R(401, NoRow, {}))
          ELSE IF errs # {}
          THEN UNCHANGED <<authors, nextId>> /\ Respond(R(400, NoRow, errs))
          ELSE /\ nextId.author <= MaxAuthorId
               /\ authors' = With(authors, nextId.author,
                                  [email |-> p.email, first_name |-> p.first_name,
                                   last_name |-> p.last_name])
               /\ nextId' = [nextId EXCEPT !.author = @ + 1]
               /\ Respond(R(201, nextId.author, {}))

\* PUT / PATCH /authors/{id}/
AuthorUpdate(cred, id, p, partial) ==
    LET method == IF partial THEN "PATCH" ELSE "PUT"
        R(status, e) == Exchange("author_update", method, cred, id, p, status, e, NoBody)
    IN /\ UNCHANGED <<deployVars, authVars, categories, publishers, books, reviews, nextId, pending, cache>>
       /\ IF Gate(cred, method) # 0
          THEN UNCHANGED authors /\ Respond(R(401, {}))
          ELSE IF id \notin DOMAIN authors
          THEN UNCHANGED authors /\ Respond(R(404, {}))
          ELSE IF ValidateAuthor(p, partial, id) # {}
          THEN UNCHANGED authors /\ Respond(R(400, ValidateAuthor(p, partial, id)))
          ELSE authors' = With(authors, id, MergeAuthor(authors[id], p))
               /\ Respond(R(200, {}))

\* PUT / PATCH /authors/{id}/ up to the end of serializer.is_valid(): the
\* instance is read by get_object() and the validated fields are set on it;
\* the request waits in pending for its save with the row it will write.
AuthorUpdateRead(cred, id, p, partial) ==
    LET method == IF partial THEN "PATCH" ELSE "PUT"
        R(status, e) == Exchange("author_update", method, cred, id, p, status, e, NoBody)
    IN /\ Len(pending) < MaxPending
       /\ UNCHANGED <<deployVars, authVars, catalogVars, reviews, nextId, cache>>
       /\ IF Gate(cred, method) # 0
          THEN UNCHANGED pending /\ Respond(R(401, {}))
          ELSE IF id \notin DOMAIN authors
          THEN UNCHANGED pending /\ Respond(R(404, {}))
          ELSE IF ValidateAuthor(p, partial, id) # {}
          THEN UNCHANGED pending /\ Respond(R(400, ValidateAuthor(p, partial, id)))
          ELSE /\ pending' = Append(pending, [cred |-> cred, sent |-> p, id |-> id,
                                              method |-> method,
                                              row |-> MergeAuthor(authors[id], p)])
               /\ UNCHANGED response

\* The serializer.save() of a waiting author update: instance.save() writes
\* every column of the instance as it was read and changed (UPDATE, or
\* INSERT when the row is gone); the database refuses an email another row
\* has (IntegrityError: a 500).
AuthorUpdateSave(i) ==
    LET q == pending[i]
        R(status) == Exchange("author_update", q.method, q.cred, q.id, q.sent,
                              status, {}, NoBody)
    IN /\ i \in 1..Len(pending)
       /\ pending' = [j \in 1..(Len(pending) - 1) |->
                         IF j < i THEN pending[j] ELSE pending[j + 1]]
       /\ UNCHANGED <<deployVars, authVars, categories, publishers, books, reviews, nextId, cache>>
       /\ IF \E a \in DOMAIN authors \ {q.id} : authors[a].email = q.row.email
          THEN UNCHANGED authors /\ Respond(R(500))
          ELSE authors' = With(authors, q.id, q.row) /\ Respond(R(200))

\* DELETE /authors/{id}/: on_delete=CASCADE of Book.author, then of Review.book.
AuthorDestroy(cred, id) ==
    LET R(status) == Resp("author_destroy", "DELETE", cred, status, id, {}, NoBody)
    IN /\ UNCHANGED <<deployVars, authVars, categories, publishers, nextId, pending, cache>>
       /\ IF Gate(cred, "DELETE") # 0
          THEN UNCHANGED <<authors, books, reviews>> /\ Respond(R(401))
          ELSE IF id \notin DOMAIN authors
          THEN UNCHANGED <<authors, books, reviews>> /\ Respond(R(404))
          ELSE /\ authors' = Without(authors, {id})
               /\ books' = Without(books, BooksOfAuthor(id))
               /\ reviews' = Without(reviews, ReviewsOfBooks(BooksOfAuthor(id)))
               /\ Respond(R(204))

\* GET /authors/ (id = NoRow), GET /authors/{id}/ and GET /authors/{id}/books/
AuthorRead(cred, op, id) ==
    LET R(status, body) == Resp(op, "GET", cred, status, id, {}, body)
        Row(a) == [id |-> a, email |-> authors[a].email,
                   books_count |-> CountBooks(BooksOfAuthor(a))]
    IN /\ UNCHANGED <<deployVars, authVars, catalogVars, reviews, nextId, pending, cache>>
       /\ IF Gate(cred, "GET") # 0 THEN Respond(R(401, NoBody))
          ELSE IF op = "author_list"
          THEN Respond(R(200, [items |-> {Row(a) : a \in DOMAIN authors}]))
          ELSE IF id \notin DOMAIN authors THEN Respond(R(404, NoBody))
          ELSE IF op = "author_retrieve" THEN Respond(R(200, Row(id)))
          ELSE Respond(R(200, [items |-> BooksOfAuthor(id)]))

\* CategorySerializer / PublisherSerializer on p = [has, name]: name is
\* required and unique in its table.
ValidateName(table, p, partial, self) ==
    LET missing == IF partial THEN {} ELSE {"name"} \ p.has
        bad == {f \in p.has :
                   \E x \in DOMAIN table \ {self} : table[x].name = p.name}
    IN missing \cup bad

\* POST /categories/
CategoryCreate(cred, p) ==
    LET errs == ValidateName(categories, p, FALSE, NoRow)
        R(status, id, e) == Exchange("category_create", "POST", cred, id, p, status, e, NoBody)
    IN /\ UNCHANGED <<deployVars, authVars, authors, publishers, books, reviews, pending, cache>>
       /\ IF Gate(cred, "POST") # 0
          THEN UNCHANGED <<categories, nextId>> /\ Respond(R(401, NoRow, {}))
          ELSE IF errs # {}
          THEN UNCHANGED <<categories, nextId>> /\ Respond(R(400, NoRow, errs))
          ELSE /\ nextId.category <= MaxCategoryId
               /\ categories' = With(categories, nextId.category, [name |-> p.name])
               /\ nextId' = [nextId EXCEPT !.category = @ + 1]
               /\ Respond(R(201, nextId.category, {}))

\* PUT / PATCH /categories/{id}/
CategoryUpdate(cred, id, p, partial) ==
    LET method == IF partial THEN "PATCH" ELSE "PUT"
        R(status, e) == Exchange("category_update", method, cred, id, p, status, e, NoBody)
    IN /\ UNCHANGED <<deployVars, authVars, authors, publishers, books, reviews, nextId, pending, cache>>
       /\ IF Gate(cred, method) # 0
          THEN UNCHANGED categories /\ Respond(R(401, {}))
          ELSE IF id \notin DOMAIN categories
          THEN UNCHANGED categories /\ Respond(R(404, {}))
          ELSE IF ValidateName(categories, p, partial, id) # {}
          THEN UNCHANGED categories
               /\ Respond(R(400, ValidateName(categories, p, partial, id)))
          ELSE categories' = With(categories, id,
                                  IF "name" \in p.has THEN [name |-> p.name]
                                  ELSE categories[id])
               /\ Respond(R(200, {}))

\* DELETE /categories/{id}/: the rows of the book-category table go with it.
CategoryDestroy(cred, id) ==
    LET R(status) == Resp("category_destroy", "DELETE", cred, status, id, {}, NoBody)
    IN /\ UNCHANGED <<deployVars, authVars, authors, publishers, reviews, nextId, pending, cache>>
       /\ IF Gate(cred, "DELETE") # 0
          THEN UNCHANGED <<categories, books>> /\ Respond(R(401))
          ELSE IF id \notin DOMAIN categories
          THEN UNCHANGED <<categories, books>> /\ Respond(R(404))
          ELSE /\ categories' = Without(categories, {id})
               /\ books' = [b \in DOMAIN books |->
                               [books[b] EXCEPT !.categories = @ \ {id}]]
               /\ Respond(R(204))

\* GET /categories/ (id = NoRow), GET /categories/{id}/, GET /categories/{id}/books/
CategoryRead(cred, op, id) ==
    LET R(status, body) == Resp(op, "GET", cred, status, id, {}, body)
        Row(c) == [id |-> c, name |-> categories[c].name,
                   books_count |-> CountBooks(BooksOfCategory(c))]
    IN /\ UNCHANGED <<deployVars, authVars, catalogVars, reviews, nextId, pending, cache>>
       /\ IF Gate(cred, "GET") # 0 THEN Respond(R(401, NoBody))
          ELSE IF op = "category_list"
          THEN Respond(R(200, [items |-> {Row(c) : c \in DOMAIN categories}]))
          ELSE IF id \notin DOMAIN categories THEN Respond(R(404, NoBody))
          ELSE IF op = "category_retrieve" THEN Respond(R(200, Row(id)))
          ELSE Respond(R(200, [items |-> BooksOfCategory(id)]))

\* POST /publishers/
PublisherCreate(cred, p) ==
    LET errs == ValidateName(publishers, p, FALSE, NoRow)
        R(status, id, e) == Exchange("publisher_create", "POST", cred, id, p, status, e, NoBody)
    IN /\ UNCHANGED <<deployVars, authVars, authors, categories, books, reviews, pending, cache>>
       /\ IF Gate(cred, "POST") # 0
          THEN UNCHANGED <<publishers, nextId>> /\ Respond(R(401, NoRow, {}))
          ELSE IF errs # {}
          THEN UNCHANGED <<publishers, nextId>> /\ Respond(R(400, NoRow, errs))
          ELSE /\ nextId.publisher <= MaxPublisherId
               /\ publishers' = With(publishers, nextId.publisher, [name |-> p.name])
               /\ nextId' = [nextId EXCEPT !.publisher = @ + 1]
               /\ Respond(R(201, nextId.publisher, {}))

\* PUT / PATCH /publishers/{id}/
PublisherUpdate(cred, id, p, partial) ==
    LET method == IF partial THEN "PATCH" ELSE "PUT"
        R(status, e) == Exchange("publisher_update", method, cred, id, p, status, e, NoBody)
    IN /\ UNCHANGED <<deployVars, authVars, authors, categories, books, reviews, nextId, pending, cache>>
       /\ IF Gate(cred, method) # 0
          THEN UNCHANGED publishers /\ Respond(R(401, {}))
          ELSE IF id \notin DOMAIN publishers
          THEN UNCHANGED publishers /\ Respond(R(404, {}))
          ELSE IF ValidateName(publishers, p, partial, id) # {}
          THEN UNCHANGED publishers
               /\ Respond(R(400, ValidateName(publishers, p, partial, id)))
          ELSE publishers' = With(publishers, id,
                                  IF "name" \in p.has THEN [name |-> p.name]
                                  ELSE publishers[id])
               /\ Respond(R(200, {}))

\* A publisher delete that takes the publisher's books with it.
DeletePublisherBooks(q) == Without(books, BooksOfPublisher(q))

\* on_delete=SET_NULL of Book.publisher: the books after publisher q is gone.
SetNullPublisher(q) ==
    [b \in DOMAIN books |->
        IF books[b].publisher = q THEN [books[b] EXCEPT !.publisher = NoRow]
        ELSE books[b]]

\* DELETE /publishers/{id}/
PublisherDestroy(cred, id) ==
    LET R(status) == Resp("publisher_destroy", "DELETE", cred, status, id, {}, NoBody)
    IN /\ UNCHANGED <<deployVars, authVars, authors, categories, reviews, nextId, pending, cache>>
       /\ IF Gate(cred, "DELETE") # 0
          THEN UNCHANGED <<publishers, books>> /\ Respond(R(401))
          ELSE IF id \notin DOMAIN publishers
          THEN UNCHANGED <<publishers, books>> /\ Respond(R(404))
          ELSE /\ publishers' = Without(publishers, {id})
               /\ books' = SetNullPublisher(id)
               /\ Respond(R(204))

\* GET /publishers/ (id = NoRow) and GET /publishers/{id}/
PublisherRead(cred, op, id) ==
    LET R(status, body) == Resp(op, "GET", cred, status, id, {}, body)
        Row(q) == [id |-> q, name |-> publishers[q].name,
                   books_count |-> CountBooks(BooksOfPublisher(q))]
    IN /\ UNCHANGED <<deployVars, authVars, catalogVars, reviews, nextId, pending, cache>>
       /\ IF Gate(cred, "GET") # 0 THEN Respond(R(401, NoBody))
          ELSE IF op = "publisher_list"
          THEN Respond(R(200, [items |-> {Row(q) : q \in DOMAIN publishers}]))
          ELSE IF id \notin DOMAIN publishers THEN Respond(R(404, NoBody))
          ELSE Respond(R(200, Row(id)))

(***************************************************************************)
(* The authentication views: login_user, logout_user, change_password,     *)
(* user_profile.                                                           *)
(***************************************************************************)
Token(k) == [kind |-> "token", key |-> k]
\* The cookie of a session that user opened with the password raw.
Session(user, raw) == [kind |-> "session", key |-> user, hash |-> Hash(raw)]
TokensOf(user) == {t \in tokens : t.user = user}

\* AUTH_PASSWORD_VALIDATORS.  The similarity validator compares the password
\* with the user's attributes, which no password of the model resembles.
MinimumLength == 8
Digits == {"0", "1", "2", "3", "4", "5", "6", "7", "8", "9"}
CommonPasswords == {"password", "qwertyuiop"}
MinimumLengthValidator(raw) == Len(raw) >= MinimumLength
CommonPasswordValidator(raw) == raw \notin CommonPasswords
NumericPasswordValidator(raw) ==
    \E i \in 1..Len(raw) : SubSeq(raw, i, i) \notin Digits
validate_password(raw) ==
    /\ MinimumLengthValidator(raw)
    /\ CommonPasswordValidator(raw)
    /\ NumericPasswordValidator(raw)

\* An authentication backend that does not look at is_active.
AuthenticateInactiveToo(username, raw) ==
    {u \in DOMAIN users : /\ users[u].username = username
                          /\ CheckPassword(raw, users[u].password)}

\* django.contrib.auth.authenticate under ModelBackend: the user of that
\* username, if the password checks and the user is active; else none.
DjangoAuthenticate(username, raw) ==
    {u \in DOMAIN users : /\ users[u].username = username
                          /\ CheckPassword(raw, users[u].password)
                          /\ users[u].is_active}

\* UserLoginSerializer on p = [has, username, password]: both fields are
\* required and not blank; validate() refuses credentials that authenticate
\* no user.
ValidateLogin(p) ==
    LET missing == {"username", "password"} \ p.has
        blank == {f \in p.has : f = "password" /\ p.password = ""}
    IN IF missing \cup blank # {} THEN missing \cup blank
       ELSE IF DjangoAuthenticate(p.username, p.password) = {}
       THEN {"non_field_errors"}
       ELSE {}

\* A stored password written without set_password: the raw text, which
\* names no hasher.
StoreRawPassword(user, raw) == [users EXCEPT ![user].password = <<"", raw>>]

\* user.set_password(raw); user.save()
SetPassword(user, raw) == [users EXCEPT ![user].password = Hash(raw)]

\* A logout that answers without deleting the token.
KeepToken(user) == tokens

\* request.user.auth_token.delete()
DeleteToken(user) == tokens \ TokensOf(user)

\* GET / POST /auth/login/ (AllowAny): GET answers the empty form; POST
\* validates and answers with the user's token, created if there is none
\* (Token.objects.get_or_create).
login_user(cred, method, p) ==
    LET a == Authenticate(cred)
        errs == ValidateLogin(p)
        R(status, e, body) == Exchange("login", method, cred, NoRow, p, status, e, body)
    IN /\ UNCHANGED <<deployVars, users, catalogVars, reviews, nextId, pending, cache>>
       /\ IF ~a.ok
          THEN UNCHANGED <<tokens, nextKey>> /\ Respond(R(401, {}, NoBody))
          ELSE IF method = "GET"
          THEN UNCHANGED <<tokens, nextKey>> /\ Respond(R(200, {}, NoBody))
          ELSE IF errs # {}
          THEN UNCHANGED <<tokens, nextKey>> /\ Respond(R(400, errs, NoBody))
          ELSE LET user == CHOOSE u \in DjangoAuthenticate(p.username, p.password) : TRUE
               IN IF TokensOf(user) # {}
                  THEN /\ UNCHANGED <<tokens, nextKey>>
                       /\ Respond(R(200, {}, [user |-> user,
                              token |-> (CHOOSE t \in TokensOf(user) : TRUE).key]))
                  ELSE /\ nextKey <= MaxKey
                       /\ tokens' = tokens \cup {[key |-> nextKey, user |-> user]}
                       /\ nextKey' = nextKey + 1
                       /\ Respond(R(200, {}, [user |-> user, token |-> nextKey]))

\* POST /auth/logout/ (IsAuthenticated): deletes the caller's token; an
\* exception while deleting is answered with 400.
logout_user(cred) ==
    LET a == Authenticate(cred)
        R(status) == Resp("logout", "POST", cred, status, NoRow, {}, NoBody)
    IN /\ UNCHANGED <<deployVars, users, nextKey, catalogVars, reviews, nextId, pending, cache>>
       /\ IF ~a.ok \/ ~IsAuthenticated(a.user)
          THEN UNCHANGED tokens /\ Respond(R(401))
          ELSE IF TokensOf(a.user) = {}
          THEN UNCHANGED tokens /\ Respond(R(400))
          ELSE tokens' = DeleteToken(a.user) /\ Respond(R(200))

\* The serializer without validate_old_password.
ValidatePasswordChangeAnyOld(user, p) ==
    LET fields == {"old_password", "new_password", "new_password_confirm"}
        missing == fields \ p.has
        blank == {f \in p.has : p[f] = ""}
    IN IF missing \cup blank # {} THEN missing \cup blank
       ELSE IF p.new_password # p.new_password_confirm
       THEN {"new_password_confirm"}
       ELSE IF ~validate_password(p.new_password) THEN {"new_password"}
       ELSE {}

\* PasswordChangeSerializer on p = [has, old_password, new_password,
\* new_password_confirm]: the fields are required and not blank,
\* validate_old_password checks the old password, and validate() runs when
\* no field has an error.
ValidatePasswordChange(user, p) ==
    LET fields == {"old_password", "new_password", "new_password_confirm"}
        missing == fields \ p.has
        blank == {f \in p.has : p[f] = ""}
        wrong == {f \in p.has \ blank :
                     f = "old_password"
                     /\ ~CheckPassword(p.old_password, users[user].password)}
    IN IF missing \cup blank \cup wrong # {} THEN missing \cup blank \cup wrong
       ELSE IF p.new_password # p.new_password_confirm
       THEN {"new_password_confirm"}
       ELSE IF ~validate_password(p.new_password) THEN {"new_password"}
       ELSE {}

\* POST /auth/change-password/ (IsAuthenticated): saves the new password,
\* deletes the caller's token and creates a new one with a new key.  For a
\* caller without a token (authenticated by session) request.user.auth_token
\* raises after the save, which no handler catches: a 500.
change_password(cred, p) ==
    LET a == Authenticate(cred)
        R(status, e, body) ==
            Exchange("change_password", "POST", cred, NoRow, p, status, e, body)
    IN /\ UNCHANGED <<deployVars, catalogVars, reviews, nextId, pending, cache>>
       /\ IF ~a.ok \/ ~IsAuthenticated(a.user)
          THEN UNCHANGED authVars /\ Respond(R(401, {}, NoBody))
          ELSE IF ValidatePasswordChange(a.user, p) # {}
          THEN /\ UNCHANGED authVars
               /\ Respond(R(400, ValidatePasswordChange(a.user, p), NoBody))
          ELSE IF TokensOf(a.user) = {}
          THEN /\ users' = SetPassword(a.user, p.new_password)
               /\ UNCHANGED <<tokens, nextKey>>
               /\ Respond(R(500, {}, NoBody))
          ELSE /\ nextKey <= MaxKey
               /\ users' = SetPassword(a.user, p.new_password)
               /\ tokens' = DeleteToken(a.user) \cup {[key |-> nextKey, user |-> a.user]}
               /\ nextKey' = nextKey + 1
               /\ Respond(R(200, {}, [token |-> nextKey]))

\* GET /auth/profile/ (IsAuthenticated)
user_profile(cred) ==
    LET a == Authenticate(cred)
        R(status, body) == Resp("user_profile", "GET", cred, status, NoRow, {}, body)
    IN /\ UNCHANGED <<deployVars, authVars, catalogVars, reviews, nextId, pending, cache>>
       /\ IF ~a.ok \/ ~IsAuthenticated(a.user)
          THEN Respond(R(401, NoBody))
          ELSE Respond(R(200, [user |-> a.user,
                               username |-> users[a.user].username,
                               email |-> users[a.user].email,
                               reviews_count |-> Cardinality(
                                   {r \in DOMAIN reviews : reviews[r].user = a.user})]))

(***************************************************************************)
(* register_user and health_check.                                         *)
(***************************************************************************)
RegistrationFields == {"username", "email", "password", "password_confirm"}

\* The serializer without validate_email.
ValidateRegistrationAnyEmail(p) ==
    LET missing == RegistrationFields \ p.has
        taken == {f \in p.has :
                     f = "username"
                     /\ \E u \in DOMAIN users : users[u].username = p.username}
    IN IF missing \cup taken # {} THEN missing \cup taken
       ELSE IF p.password # p.password_confirm THEN {"password_confirm"}
       ELSE IF ~validate_password(p.password) THEN {"password"}
       ELSE {}

\* UserRegistrationSerializer on p = [has, username, email, password,
\* password_confirm]: the four fields are required, the username is unique
\* (User.username), validate_email refuses an email a user holds, and
\* validate() runs when no field has an error: the two passwords are the
\* same, then the password validators.
ValidateRegistration(p) ==
    LET missing == RegistrationFields \ p.has
        taken == {f \in p.has :
                     \/ f = "username"
                        /\ \E u \in DOMAIN users : users[u].username = p.username
                     \/ f = "email"
                        /\ \E u \in DOMAIN users : users[u].email = p.email}
    IN IF missing \cup taken # {} THEN missing \cup taken
       ELSE IF p.password # p.password_confirm THEN {"password_confirm"}
       ELSE IF ~validate_password(p.password) THEN {"password"}
       ELSE {}

\* UserRegistrationSerializer.create: User.objects.create_user stores the
\* hash of the password; a new user is active.
NewUser(p) ==
    [username |-> p.username, email |-> p.email, password |-> Hash(p.password),
     is_active |-> TRUE]

\* A registration that issues no token.
IssueNoToken(user) == tokens

\* Token.objects.get_or_create(user=user): the user's token, created with a
\* new key when the user has none.
IssueToken(user) ==
    IF TokensOf(user) # {} THEN tokens
    ELSE tokens \cup {[key |-> nextKey, user |-> user]}

\* GET / POST /auth/register/ (AllowAny): GET answers the empty form; POST
\* validates, creates the user and answers 201 with the user and its token.
register_user(cred, method, p) ==
    LET a == Authenticate(cred)
        errs == ValidateRegistration(p)
        id == nextId.user
        R(status, e, body) == Exchange("register", method, cred, NoRow, p, status, e, body)
    IN /\ UNCHANGED <<deployVars, catalogVars, reviews, pending, cache>>
       /\ IF ~a.ok
          THEN UNCHANGED <<authVars, nextId>> /\ Respond(R(401, {}, NoBody))
          ELSE IF method = "GET"
          THEN UNCHANGED <<authVars, nextId>> /\ Respond(R(200, {}, NoBody))
          ELSE IF errs # {}
          THEN UNCHANGED <<authVars, nextId>> /\ Respond(R(400, errs, NoBody))
          ELSE /\ id <= MaxUserId
               /\ nextKey <= MaxKey
               /\ users' = With(users, id, NewUser(p))
               /\ nextId' = [nextId EXCEPT !.user = @ + 1]
               /\ tokens' = IssueToken(id)
               /\ nextKey' = nextKey + 1
               /\ Respond(R(201, {}, [user |-> id, username |-> p.username,
                                      email |-> p.email, token |-> nextKey]))

\* pending without its i-th request.
Finished(i) ==
    [j \in 1..(Len(pending) - 1) |-> IF j < i THEN pending[j] ELSE pending[j + 1]]

\* A token table without constraints.
NoTokenConstraint(user) == TRUE

\* INSERT INTO authtoken_token as the database checks it: user_id names a
\* stored user and is unique (Token.user is a OneToOneField).
TokenRowAllowed(user) == user \in DOMAIN users /\ TokensOf(user) = {}

\* POST /auth/register/ up to the end of serializer.is_valid(): a request
\* that passes waits in pending for its save.
RegisterValidate(cred, p) ==
    LET a == Authenticate(cred)
        errs == ValidateRegistration(p)
        R(status, e) == Exchange("register", "POST", cred, NoRow, p, status, e, NoBody)
    IN /\ Len(pending) < MaxPending
       /\ UNCHANGED <<deployVars, authVars, catalogVars, reviews, nextId, cache>>
       /\ IF ~a.ok THEN UNCHANGED pending /\ Respond(R(401, {}))
          ELSE IF errs # {} THEN UNCHANGED pending /\ Respond(R(400, errs))
          ELSE /\ pending' = Append(pending, [op |-> "register", cred |-> cred,
                                              sent |-> p])
               /\ UNCHANGED response

\* serializer.save() and Token.objects.get_or_create of a waiting
\* registration: create_user inserts the row, which the database refuses
\* when the username exists (IntegrityError: a 500); auth_user has no
\* constraint on email.
RegisterSave(i) ==
    LET q == pending[i]
        id == nextId.user
        R(status, body) == Exchange("register", "POST", q.cred, NoRow, q.sent,
                                    status, {}, body)
    IN /\ i \in 1..Len(pending)
       /\ q.op = "register"
       /\ pending' = Finished(i)
       /\ UNCHANGED <<deployVars, catalogVars, reviews, cache>>
       /\ IF \E u \in DOMAIN users : users[u].username = q.sent.username
          THEN UNCHANGED <<authVars, nextId>> /\ Respond(R(500, NoBody))
          ELSE /\ id <= MaxUserId
               /\ nextKey <= MaxKey
               /\ users' = With(users, id, NewUser(q.sent))
               /\ nextId' = [nextId EXCEPT !.user = @ + 1]
               /\ tokens' = IssueToken(id)
               /\ nextKey' = nextKey + 1
               /\ Respond(R(201, [user |-> id, username |-> q.sent.username,
                                  email |-> q.sent.email, token |-> nextKey]))

\* POST /auth/change-password/ up to the end of serializer.save(): the new
\* password is stored.  token is the key of request.user.auth_token as
\* TokenAuthentication left it on the user (0 for a session, which looks
\* the token up when it deletes it).
ChangePasswordSave(cred, p) ==
    LET a == Authenticate(cred)
        R(status, e) == Exchange("change_password", "POST", cred, NoRow, p, status, e, NoBody)
    IN /\ Len(pending) < MaxPending
       /\ UNCHANGED <<deployVars, tokens, nextKey, catalogVars, reviews, nextId, cache>>
       /\ IF ~a.ok \/ ~IsAuthenticated(a.user)
          THEN UNCHANGED <<users, pending>> /\ Respond(R(401, {}))
          ELSE IF ValidatePasswordChange(a.user, p) # {}
          THEN /\ UNCHANGED <<users, pending>>
               /\ Respond(R(400, ValidatePasswordChange(a.user, p)))
          ELSE /\ users' = SetPassword(a.user, p.new_password)
               /\ pending' = Append(pending,
                      [op |-> "change_password", cred |-> cred, sent |-> p,
                       user |-> a.user, pc |-> "delete",
                       token |-> IF cred.kind = "token" THEN cred.key ELSE 0])
               /\ UNCHANGED response

\* request.user.auth_token.delete() of a waiting password change: the row
\* of the cached token is deleted, if it is still there; a session's user
\* without a token raises (a 500).
ChangePasswordDelete(i) ==
    LET q == pending[i]
        R(status) == Exchange("change_password", "POST", q.cred, NoRow, q.sent,
                              status, {}, NoBody)
    IN /\ i \in 1..Len(pending)
       /\ q.op = "change_password" /\ q.pc = "delete"
       /\ UNCHANGED <<deployVars, users, nextKey, catalogVars, reviews, nextId, cache>>
       /\ IF q.token = 0 /\ TokensOf(q.user) = {}
          THEN /\ UNCHANGED tokens
               /\ pending' = Finished(i)
               /\ Respond(R(500))
          ELSE /\ tokens' = IF q.token = 0 THEN DeleteToken(q.user)
                            ELSE {t \in tokens : t.key # q.token}
               /\ pending' = [pending EXCEPT ![i].pc = "create"]
               /\ UNCHANGED response

\* Token.objects.create(user=request.user) of a waiting password change,
\* and the response.
ChangePasswordCreate(i) ==
    LET q == pending[i]
        R(status, body) == Exchange("change_password", "POST", q.cred, NoRow, q.sent,
                                    status, {}, body)
    IN /\ i \in 1..Len(pending)
       /\ q.op = "change_password" /\ q.pc = "create"
       /\ pending' = Finished(i)
       /\ UNCHANGED <<deployVars, users, catalogVars, reviews, nextId, cache>>
       /\ IF TokenRowAllowed(q.user)
          THEN /\ nextKey <= MaxKey
               /\ tokens' = tokens \cup {[key |-> nextKey, user |-> q.user]}
               /\ nextKey' = nextKey + 1
               /\ Respond(R(200, [token |-> nextKey]))
          ELSE /\ UNCHANGED <<tokens, nextKey>>
               /\ Respond(R(500, NoBody))

\* A health check that does not try the connection.
ConnectionNotChecked(connected) == TRUE

\* connection.ensure_connection(): returns when the database answers, raises
\* when it does not.
EnsureConnection(connected) == connected

\* GET /health/ (AllowAny).  connected says whether the database answers
\* while the request is handled.  A request with a token is authenticated
\* first, by a query of the token table, which raises when the database does
\* not answer (an uncaught exception: a 500); the view itself answers 503
\* when connection.ensure_connection() raises.
health_check(cred, connected) ==
    LET R(status, body) ==
            Exchange("health_check", "GET", cred, NoRow, [connected |-> connected],
                     status, {}, body)
    IN /\ UNCHANGED <<deployVars, authVars, catalogVars, reviews, nextId, pending, cache>>
       /\ IF cred.kind = "token" /\ ~connected THEN Respond(R(500, NoBody))
          ELSE IF ~Authenticate(cred).ok THEN Respond(R(401, NoBody))
          ELSE IF EnsureConnection(connected)
          THEN Respond(R(200, [status |-> "healthy", database |-> "connected",
                               api |-> "running"]))
          ELSE Respond(R(503, [status |-> "unhealthy", database |-> "disconnected",
                               error |-> "OperationalError"]))

(***************************************************************************)
(* The admin site (config/urls.py: admin/).                                *)
(***************************************************************************)
\* Clearing the "active" box of a user in the admin.
AdminDeactivateUser(u) ==
    /\ u \in DOMAIN users
    /\ users[u].is_active
    /\ users' = [users EXCEPT ![u].is_active = FALSE]
    /\ Respond(Resp("admin_deactivate_user", "POST", NoCredentials, 302, u, {}, NoBody))
    /\ UNCHANGED <<deployVars, tokens, nextKey, catalogVars, reviews, nextId, pending, cache>>

\* Deleting a user in the admin: on_delete=CASCADE of Review.user and of
\* the token's user.
AdminDeleteUser(u) ==
    /\ u \in DOMAIN users
    /\ users' = Without(users, {u})
    /\ tokens' = {t \in tokens : t.user # u}
    /\ reviews' = Without(reviews, {r \in DOMAIN reviews : reviews[r].user = u})
    /\ Respond(Resp("admin_delete_user", "POST", NoCredentials, 302, u, {}, NoBody))
    /\ UNCHANGED <<deployVars, nextKey, catalogVars, nextId, pending, cache>>

(***************************************************************************)
(* scripts/wait_for_db.py and the createsuperuser management command.      *)
(***************************************************************************)
\* wait_for_db before its first attempt.
ScriptStart == [pc |-> "connect", attempts |-> 0]

\* A loop that gives up after the attempts that are counted.
AttemptsLimited(n) == n < MaxAttempts

\* while True
AttemptsUnlimited(n) == TRUE

\* One pass of the try block: psycopg2.connect(..., connect_timeout=3) and
\* conn.close().  When the database accepts the connection the loop breaks
\* and wait_for_db returns; any Exception is caught and the script goes to
\* sleep.  attempts counts the passes up to MaxAttempts.
WaitConnect ==
    /\ script.pc = "connect"
    /\ AttemptsUnlimited(script.attempts)
    /\ script' = [pc |-> IF database = "up" THEN "returned" ELSE "sleep",
                  attempts |-> IF script.attempts < MaxAttempts
                               THEN script.attempts + 1 ELSE script.attempts]
    /\ UNCHANGED <<authVars, catalogVars, reviews, nextId, pending, cache, response,
                   database>>

\* time.sleep(2) ends and the loop starts over.
WaitSleep ==
    /\ script.pc = "sleep"
    /\ script' = [script EXCEPT !.pc = "connect"]
    /\ UNCHANGED <<authVars, catalogVars, reviews, nextId, pending, cache, response,
                   database>>

\* The database server starts or stops accepting connections.
DatabaseChange ==
    /\ database' = IF database = "up" THEN "down" ELSE "up"
    /\ UNCHANGED <<authVars, catalogVars, reviews, nextId, pending, cache, response,
                   script>>

\* A command that does not look for the username.
UsernameNeverExists(username) == FALSE

\* User.objects.filter(username=username).exists()
UsernameExists(username) == \E u \in DOMAIN users : users[u].username = username

\* User.objects.create_superuser
NewSuperuser(o) ==
    [username |-> o.username, email |-> o.email, password |-> Hash(o.password),
     is_active |-> TRUE, is_staff |-> TRUE, is_superuser |-> TRUE]

\* manage.py createsuperuser with the options o = [username, email,
\* password]; 0 and "" stand for an option that is not given (and no
\* environment variable).  status is the exit status, out what the command
\* writes.  A query of a database that is down, or an INSERT of a username
\* that exists, raises and ends the command with status 1.
createsuperuser(o) ==
    LET R(status, out) == Exchange("createsuperuser", "", NoCredentials, NoRow, o,
                                   status, {}, [out |-> out])
    IN /\ UNCHANGED <<deployVars, tokens, nextKey, catalogVars, reviews, pending, cache>>
       /\ IF o.username = 0 \/ o.password = ""
          THEN UNCHANGED <<users, nextId>> /\ Respond(R(0, "required"))
          ELSE IF database # "up"
          THEN UNCHANGED <<users, nextId>> /\ Respond(R(1, "OperationalError"))
          ELSE IF UsernameExists(o.username)
          THEN UNCHANGED <<users, nextId>> /\ Respond(R(0, "skipping"))
          ELSE IF \E u \in DOMAIN users : users[u].username = o.username
          THEN UNCHANGED <<users, nextId>> /\ Respond(R(1, "IntegrityError"))
          ELSE /\ nextId.user <= MaxUserId
               /\ users' = With(users, nextId.user, NewSuperuser(o))
               /\ nextId' = [nextId EXCEPT !.user = @ + 1]
               /\ Respond(R(0, "created"))

(***************************************************************************)
(* The requests the clients send.                                          *)
(***************************************************************************)
RatingInputs == {0, 1, 5, 6}
MyReviewsInputs == {"", "true"}

\* The body of a POST or PUT carries every field or none, the body of a
\* PATCH one field or none; a field that is absent has the zero value of its
\* type.
BodyShapes(fields, partial) ==
    IF partial THEN {{}} \cup {{f} : f \in fields} ELSE {fields, {}}

ReviewBodies(partial, bookIds, ratings, titles, comments) ==
    {p \in [has : BodyShapes(ReviewFields, partial), book : bookIds \cup {0},
            rating : ratings \cup {0}, title : titles \cup {""},
            comment : comments \cup {""}] :
        /\ ("book" \in p.has) = (p.book # 0)
        /\ ("rating" \notin p.has) => p.rating = 0
        /\ ("title" \in p.has) = (p.title # "")
        /\ ("comment" \in p.has) = (p.comment # "")}

\* The ids a request names: the rows of the table and one that is not there.
Targets(table) == DOMAIN table \cup {NoRow}

\* A caller without a token and a caller with the first key issued, valid
\* or not by then.
OpenCredentials == {NoCredentials, Token(1)}

PostReview(bodies) ==
    \E cred \in Credentials, p \in bodies : ReviewCreate(cred, p)
PutReview(bodies) ==
    \E cred \in Credentials, id \in Targets(reviews), p \in bodies :
        ReviewUpdate(cred, id, p, FALSE)
PatchReview(bodies) ==
    \E cred \in Credentials, id \in Targets(reviews), p \in bodies :
        ReviewUpdate(cred, id, p, TRUE)
DeleteReview ==
    \E cred \in Credentials, id \in Targets(reviews) : ReviewDestroy(cred, id)
GetReviews == \E cred \in Credentials, m \in MyReviewsInputs : ReviewList(cred, m)
GetReview ==
    \E cred \in Credentials, id \in Targets(reviews), m \in MyReviewsInputs :
        ReviewRetrieve(cred, id, m)
GetBook == \E cred \in Credentials, id \in Targets(books) : BookRetrieve(cred, id)
GetBookReviews == \E cred \in Credentials, id \in Targets(books) : BookReviews(cred, id)
GetAvailable == \E cred \in Credentials : BookAvailable(cred)
DeleteBook == \E cred \in Credentials, id \in Targets(books) : BookDestroy(cred, id)
DeleteUser == \E u \in DOMAIN users : AdminDeleteUser(u)

NoResponse == Resp("none", "GET", NoCredentials, 0, NoRow, {}, NoBody)
Empty == [x \in {} |-> 0]

SeedUser(u) ==
    [username |-> u, email |-> u, password |-> Hash("testpass123"),
     is_active |-> TRUE]
SeedBook == [author |-> 1, categories |-> {1}, publisher |-> 1, status |-> "available"]

\* The state the test fixtures build: users, the first nTokens of them with
\* a token, an author, a category, a publisher and books of that author.
\* ids gives the next id of each sequence.
InitStore(nUsers, nTokens, nBooks, ids) ==
    /\ users = [u \in 1..nUsers |-> SeedUser(u)]
    /\ tokens = {[key |-> u, user |-> u] : u \in 1..nTokens}
    /\ nextKey = nTokens + 1
    /\ authors = [a \in {1} |-> [email |-> "john@example.com",
                                 first_name |-> "John", last_name |-> "Doe"]]
    /\ categories = [c \in {1} |-> [name |-> "Technology"]]
    /\ publishers = [q \in {1} |-> [name |-> "Technology"]]
    /\ books = [b \in 1..nBooks |-> SeedBook]
    /\ reviews = Empty
    /\ nextId = With(ids, "user", nUsers + 1)
    /\ pending = <<>>
    /\ cache = Empty
    /\ response = NoResponse
    /\ database = "up"
    /\ script = ScriptStart

Sequences(nBooks, firstReview) ==
    [author |-> 2, category |-> 2, publisher |-> 2,
     book |-> nBooks + 1, review |-> firstReview]

(***************************************************************************)
(* The review specification: MaxUsers users write and read reviews of      *)
(* MaxBooks books; books and users may be deleted.  Each request is        *)
(* handled whole.                                                          *)
(***************************************************************************)
Init == InitStore(MaxUsers, MaxUsers, MaxBooks, Sequences(MaxBooks, MaxReviewId - 1))

PlainFull ==
    ReviewBodies(FALSE, 1..MaxBooks, {1, 5}, {"Great Book"}, {"Nice."})
PlainPartial ==
    ReviewBodies(TRUE, 1..MaxBooks, {1, 5}, {"Great Book"}, {"Nice."})

Next ==
    \/ PostReview(PlainFull)
    \/ PatchReview(PlainPartial)
    \/ DeleteReview
    \/ GetReviews
    \/ GetReview
    \/ GetBook
    \/ GetBookReviews
    \/ GetAvailable
    \/ DeleteBook
    \/ DeleteUser

Spec == Init /\ [][Next]_vars

(***************************************************************************)
(* The rating specification: MaxRaters users post and delete reviews of   *)
(* one book; the book's detail and the cached book list are read.          *)
(***************************************************************************)
RatingFull == ReviewBodies(FALSE, {1}, {1, 5}, {"Great Book"}, {"Nice."})

GetBooks == \E cred \in Credentials : BookList(cred, "")
ExpireCache == \E key \in DOMAIN cache : CacheExpire(key)

RatingInit == InitStore(MaxRaters, MaxRaters, 1, Sequences(1, 1))

RatingNext ==
    \/ PostReview(RatingFull)
    \/ DeleteReview
    \/ GetBook
    \/ GetBooks
    \/ ExpireCache

RatingSpec == RatingInit /\ [][RatingNext]_vars

(***************************************************************************)
(* The race specification: a POST /reviews/ is two steps, its validation   *)
(* and its save, and other requests run between them.                      *)
(***************************************************************************)
RaceFull == ReviewBodies(FALSE, 1..MaxBooks, {5}, {"Great Book"}, {"Nice."})
RacePartial == ReviewBodies(TRUE, 1..MaxBooks, {}, {}, {})

SubmitReview ==
    \E cred \in Credentials, p \in RaceFull : ReviewCreateValidate(cred, p)
SaveReview == \E i \in 1..Len(pending) : ReviewCreateSave(i)

RaceInit == InitStore(MaxUsers, MaxUsers, MaxBooks, Sequences(MaxBooks, MaxReviewId - 1))

RaceNext ==
    \/ SubmitReview
    \/ SaveReview
    \/ PatchReview(RacePartial)
    \/ DeleteReview

RaceSpec == RaceInit /\ [][RaceNext]_vars

(***************************************************************************)
(* The owner specification: MaxUsers users create, replace, patch and      *)
(* delete reviews, their own and each other's, with ratings in and out of  *)
(* range.                                                                  *)
(***************************************************************************)
OwnerFull == ReviewBodies(FALSE, {1}, RatingInputs, {"Great Book"}, {"Nice."})
OwnerPartial == ReviewBodies(TRUE, {1}, RatingInputs, {"Updated Title"}, {})

OwnerInit == InitStore(MaxUsers, MaxUsers, 1, Sequences(1, MaxReviewId - 1))

OwnerNext ==
    \/ PostReview(OwnerFull)
    \/ PutReview(OwnerFull)
    \/ PatchReview(OwnerPartial)
    \/ DeleteReview
    \/ GetReview

OwnerSpec == OwnerInit /\ [][OwnerNext]_vars

(***************************************************************************)
(* The catalog specification: one user with a token, and callers with no   *)
(* token or a wrong one, write authors, categories, publishers, books and  *)
(* reviews.                                                                *)
(***************************************************************************)
BookBodies(partial) ==
    {p \in [has : BodyShapes(IF partial THEN {"status"} ELSE BookFields, partial),
            author : {0, 1},
            categories : {{}, {1}}, publisher : {0, 1},
            status : {"", "out_of_stock"}] :
        /\ ("author_id" \in p.has) = (p.author # 0)
        /\ ("category_ids" \in p.has) = (p.categories # {})
        /\ ("publisher_id" \in p.has) = (p.publisher # 0)
        /\ ("status" \in p.has) = (p.status # "")}

AuthorBodies(partial) ==
    {p \in [has : BodyShapes(IF partial THEN {"email"}
                              ELSE {"email", "first_name", "last_name"}, partial),
            email : {"", "jane@example.com"}, first_name : {"", "Jane"},
            last_name : {"", "Smith"}] :
        /\ ("email" \in p.has) = (p.email # "")
        /\ ("first_name" \in p.has) = (p.first_name # "")
        /\ ("last_name" \in p.has) = (p.last_name # "")}

NameBodies(partial) ==
    {p \in [has : BodyShapes({"name"}, partial), name : {"", "Fiction"}] :
        ("name" \in p.has) = (p.name # "")}

CatalogReviewFull == ReviewBodies(FALSE, {1}, {5}, {"Great Book"}, {"Nice."})
CatalogReviewPartial == ReviewBodies(TRUE, {}, {1}, {}, {})

PostBook == \E cred \in Credentials, p \in BookBodies(FALSE) : BookCreate(cred, p)
PutBook ==
    \E cred \in Credentials, id \in Targets(books), p \in BookBodies(FALSE) :
        BookUpdate(cred, id, p, FALSE)
PatchBook ==
    \E cred \in Credentials, id \in Targets(books), p \in BookBodies(TRUE) :
        BookUpdate(cred, id, p, TRUE)

PostAuthor == \E cred \in Credentials, p \in AuthorBodies(FALSE) : AuthorCreate(cred, p)
PatchAuthor ==
    \E cred \in Credentials, id \in Targets(authors), p \in AuthorBodies(TRUE) :
        AuthorUpdate(cred, id, p, TRUE)
DeleteAuthor ==
    \E cred \in Credentials, id \in Targets(authors) : AuthorDestroy(cred, id)

PostCategory == \E cred \in Credentials, p \in NameBodies(FALSE) : CategoryCreate(cred, p)
DeleteCategory ==
    \E cred \in Credentials, id \in Targets(categories) : CategoryDestroy(cred, id)

PostPublisher == \E cred \in Credentials, p \in NameBodies(FALSE) : PublisherCreate(cred, p)
DeletePublisher ==
    \E cred \in Credentials, id \in Targets(publishers) : PublisherDestroy(cred, id)

\* Rows were created and deleted before: the sequences of the authors and
\* the reviews have one id left, the others none.
CatalogSequences ==
    [author |-> MaxAuthorId, category |-> MaxCategoryId + 1,
     publisher |-> MaxPublisherId + 1, book |-> MaxBookId + 1, review |-> MaxReviewId]

CatalogInit == InitStore(1, 1, 1, CatalogSequences)

CatalogNext ==
    \/ PostBook \/ PutBook \/ PatchBook \/ DeleteBook
    \/ PostAuthor \/ PatchAuthor \/ DeleteAuthor
    \/ PostCategory \/ DeleteCategory
    \/ PostPublisher \/ DeletePublisher
    \/ PostReview(CatalogReviewFull)
    \/ PatchReview(CatalogReviewPartial)
    \/ DeleteReview

CatalogSpec == CatalogInit /\ [][CatalogNext]_vars

(***************************************************************************)
(* The authentication specification: MaxUsers users without a token log    *)
(* in, read their profile, change their password and log out; a user may   *)
(* be deleted in the admin.                                                *)
(***************************************************************************)
PasswordInputs == {"testpass123", "NewSecurePass456!", "12345678"}
UsernameInputs == 0..MaxUsers

LoginBodies ==
    {p \in [has : {{"username", "password"}, {}}, username : UsernameInputs,
            password : PasswordInputs \cup {""}] :
        (p.has = {}) = (p.password = "") /\ (p.has = {} => p.username = 0)}

PasswordChangeBodies ==
    {p \in [has : {{"old_password", "new_password", "new_password_confirm"}, {}},
            old_password : PasswordInputs \cup {""},
            new_password : PasswordInputs \cup {""},
            new_password_confirm : PasswordInputs \cup {""}] :
        IF p.has = {}
        THEN p.old_password = "" /\ p.new_password = "" /\ p.new_password_confirm = ""
        ELSE p.old_password # "" /\ p.new_password # "" /\ p.new_password_confirm # ""}

Login ==
    \E cred \in Credentials, method \in {"GET", "POST"}, p \in LoginBodies :
        /\ (method = "GET" => p.has = {})
        /\ login_user(cred, method, p)
Logout == \E cred \in Credentials : logout_user(cred)
ChangePassword ==
    \E cred \in Credentials, p \in PasswordChangeBodies : change_password(cred, p)
Profile == \E cred \in Credentials : user_profile(cred)

AuthInit == InitStore(MaxUsers, 0, 0, Sequences(0, 1))

AuthNext == Login \/ Logout \/ ChangePassword \/ Profile \/ DeleteUser

AuthSpec == AuthInit /\ [][AuthNext]_vars

(***************************************************************************)
(* The cascade specification: two authors, categories and publishers with  *)
(* books, and users with reviews of them; books move between authors and   *)
(* publishers, authors, categories, publishers and books are deleted, and  *)
(* the author, category and publisher endpoints are read.                  *)
(***************************************************************************)
\* A PATCH of a book that names another author or another publisher.
MoveBookBodies ==
    {p \in [has : {{"author_id"}, {"publisher_id"}}, author : 0..MaxAuthorId,
            categories : {{}}, publisher : 0..MaxPublisherId, status : {""}] :
        /\ ("author_id" \in p.has) = (p.author # 0)
        /\ ("publisher_id" \in p.has) = (p.publisher # 0)}

MoveBook ==
    \E cred \in OpenCredentials, id \in DOMAIN books, p \in MoveBookBodies :
        BookUpdate(cred, id, p, TRUE)
CascadeDelete ==
    \E cred \in OpenCredentials :
        \/ \E id \in Targets(authors) : AuthorDestroy(cred, id)
        \/ \E id \in Targets(categories) : CategoryDestroy(cred, id)
        \/ \E id \in Targets(publishers) : PublisherDestroy(cred, id)
        \/ \E id \in Targets(books) : BookDestroy(cred, id)
GetAuthors ==
    \E cred \in {NoCredentials}, id \in Targets(authors) :
        AuthorRead(cred, IF id = NoRow THEN "author_list" ELSE "author_retrieve", id)
GetCategories ==
    \E cred \in {NoCredentials}, id \in Targets(categories) :
        CategoryRead(cred, IF id = NoRow THEN "category_list" ELSE "category_retrieve", id)
GetPublishers ==
    \E cred \in {NoCredentials}, id \in Targets(publishers) :
        PublisherRead(cred, IF id = NoRow THEN "publisher_list" ELSE "publisher_retrieve", id)

\* Two users, the first with a token; MaxAuthorId authors, MaxCategoryId
\* categories and MaxPublisherId publishers; MaxBooks books spread over
\* them; the first user's review of the first book and the other users'
\* reviews of the last book.
CascadeInit ==
    /\ users = [u \in 1..MaxUsers |-> SeedUser(u)]
    /\ tokens = {[key |-> 1, user |-> 1]}
    /\ nextKey = 2
    /\ authors = [a \in 1..MaxAuthorId |->
                     [email |-> IF a = 1 THEN "john@example.com" ELSE "jane@example.com",
                      first_name |-> "John", last_name |-> "Doe"]]
    /\ categories = [c \in 1..MaxCategoryId |->
                        [name |-> IF c = 1 THEN "Technology" ELSE "Fiction"]]
    /\ publishers = [q \in 1..MaxPublisherId |->
                        [name |-> IF q = 1 THEN "Technology" ELSE "Fiction"]]
    /\ books = [b \in 1..MaxBooks |->
                   [author |-> IF b = 1 THEN 1 ELSE MaxAuthorId,
                    categories |-> 1..(IF b = 1 THEN 1 ELSE MaxCategoryId),
                    publisher |-> IF b = 1 THEN 1 ELSE MaxPublisherId,
                    status |-> "available"]]
    /\ reviews = [r \in 1..(MaxReviewId - 1) |->
                     [book |-> IF r = 1 THEN 1 ELSE MaxBooks,
                      user |-> IF r < MaxUsers THEN r ELSE MaxUsers,
                      rating |-> 5, title |-> "Great Book", comment |-> "Nice."]]
    /\ nextId = [author |-> MaxAuthorId + 1, category |-> MaxCategoryId + 1,
                 publisher |-> MaxPublisherId + 1, book |-> MaxBooks + 1,
                 review |-> MaxReviewId, user |-> MaxUsers + 1]
    /\ pending = <<>>
    /\ cache = Empty
    /\ response = NoResponse
    /\ database = "up"
    /\ script = ScriptStart

CascadeNext ==
    \/ MoveBook
    \/ CascadeDelete
    \/ GetAuthors \/ GetCategories \/ GetPublishers

CascadeSpec == CascadeInit /\ [][CascadeNext]_vars

(***************************************************************************)
(* The account specification: one user, and the users that register, log   *)
(* in and out, read their profile and change their password; users are     *)
(* deleted and deactivated in the admin; the health endpoint is polled.    *)
(***************************************************************************)
\* A registration body with every field, or with one field left out of an
\* otherwise valid body.
RegistrationBodies ==
    {p \in [has : {RegistrationFields, {}}
                    \cup {RegistrationFields \ {f} : f \in RegistrationFields},
            username : 0..MaxUsers, email : 0..MaxUsers,
            password : {"", "testpass123", "12345678"},
            password_confirm : {"", "testpass123", "12345678"}] :
        /\ ("username" \in p.has) = (p.username # 0)
        /\ ("email" \in p.has) = (p.email # 0)
        /\ ("password" \in p.has) = (p.password # "")
        /\ ("password_confirm" \in p.has) = (p.password_confirm # "")
        /\ p.has # RegistrationFields =>
               /\ p.username \in {0, MaxUsers} /\ p.email \in {0, MaxUsers}
               /\ p.password # "12345678" /\ p.password_confirm # "12345678"}

AccountLoginBodies ==
    {p \in LoginBodies : p.has # {} /\ p.password # "12345678"}

AccountPasswordChangeBodies ==
    {p \in PasswordChangeBodies :
        /\ p.has # {}
        /\ p.old_password = "testpass123"
        /\ p.new_password = "NewSecurePass456!"
        /\ p.new_password_confirm = "NewSecurePass456!"}

Register ==
    \E cred \in OpenCredentials, method \in {"GET", "POST"}, p \in RegistrationBodies :
        /\ (method = "GET" => p.has = {})
        /\ register_user(cred, method, p)
AccountLogin ==
    \E cred \in OpenCredentials, p \in AccountLoginBodies : login_user(cred, "POST", p)
AccountChangePassword ==
    \E cred \in Credentials, p \in AccountPasswordChangeBodies :
        change_password(cred, p)
DeactivateUser == \E u \in DOMAIN users : AdminDeactivateUser(u)
Health ==
    \E cred \in OpenCredentials, connected \in BOOLEAN : health_check(cred, connected)

AccountInit == InitStore(1, 0, 0, Sequences(0, 1))

AccountNext ==
    \/ Register \/ AccountLogin \/ Logout \/ AccountChangePassword \/ Profile
    \/ DeleteUser \/ DeactivateUser \/ Health

AccountSpec == AccountInit /\ [][AccountNext]_vars

(***************************************************************************)
(* The reviewer specification: MaxUsers users post, replace and patch      *)
(* reviews of one book with bodies that also name a user, and list the     *)
(* reviews with each value of my_reviews.                                  *)
(***************************************************************************)
MyReviewsParams == {"", "true", "false"}

\* The bodies of a set, each also without and with a "user" entry.
NamingUser(bodies) ==
    {[has |-> p.has \cup (IF u = NoRow THEN {} ELSE {"user"}), book |-> p.book,
      user |-> u, rating |-> p.rating, title |-> p.title, comment |-> p.comment] :
        p \in bodies, u \in {NoRow} \cup (1..MaxUsers)}

ReviewerFull == NamingUser(ReviewBodies(FALSE, {1}, {5}, {"Great Book"}, {"Nice."}))
ReviewerPartial == NamingUser(ReviewBodies(TRUE, {1}, {1}, {}, {}))

ListReviews == \E cred \in Credentials, m \in MyReviewsParams : ReviewList(cred, m)

ReviewerInit == InitStore(MaxUsers, MaxUsers, 1, Sequences(1, 1))

ReviewerNext ==
    \/ PostReview(ReviewerFull)
    \/ PutReview(ReviewerFull)
    \/ PatchReview(ReviewerPartial)
    \/ DeleteReview
    \/ ListReviews

ReviewerSpec == ReviewerInit /\ [][ReviewerNext]_vars

(***************************************************************************)
(* The shelf specification: MaxShelf books, more than the bestseller list  *)
(* holds, with zero to MaxShelfRaters reviews each; the ranking is read    *)
(* while books and reviews are deleted.                                    *)
(***************************************************************************)
\* The number of reviews book b starts with.
ShelfReviews(b) == b % (MaxShelfRaters + 1)

ShelfInit ==
    /\ users = [u \in 1..MaxShelfRaters |-> SeedUser(u)]
    /\ tokens = {[key |-> 1, user |-> 1]}
    /\ nextKey = 2
    /\ authors = [a \in {1} |-> [email |-> "john@example.com",
                                 first_name |-> "John", last_name |-> "Doe"]]
    /\ categories = [c \in {1} |-> [name |-> "Technology"]]
    /\ publishers = [q \in {1} |-> [name |-> "Technology"]]
    /\ books = [b \in 1..MaxShelf |-> SeedBook]
    /\ reviews = [r \in {x \in 1..(MaxShelf * MaxShelfRaters) :
                            ((x - 1) % MaxShelfRaters) + 1
                                <= ShelfReviews(((x - 1) \div MaxShelfRaters) + 1)} |->
                     [book |-> ((r - 1) \div MaxShelfRaters) + 1,
                      user |-> ((r - 1) % MaxShelfRaters) + 1,
                      rating |-> 5, title |-> "Great Book", comment |-> "Nice."]]
    /\ nextId = [user |-> MaxShelfRaters + 1, author |-> 2, category |-> 2, publisher |-> 2,
                 book |-> MaxShelf + 1, review |-> MaxShelf * MaxShelfRaters + 1]
    /\ pending = <<>>
    /\ cache = Empty
    /\ response = NoResponse
    /\ database = "up"
    /\ script = ScriptStart

GetBestsellers ==
    \E ranking \in RankingsByReviews : BookBestsellers(NoCredentials, ranking)
\* The last two books, and user 1's reviews of the first book and of the
\* last two.
RemoveBook ==
    \E id \in {MaxShelf - 1, MaxShelf} : BookDestroy(Token(1), id)
RemoveReview ==
    \E b \in {1, MaxShelf - 1, MaxShelf} : ReviewDestroy(Token(1), (b - 1) * MaxShelfRaters + 1)

ShelfNext ==
    \/ GetBestsellers
    \/ RemoveBook
    \/ RemoveReview

ShelfSpec == ShelfInit /\ [][ShelfNext]_vars

(***************************************************************************)
(* The cache specification: the book list is read with and without a       *)
(* status filter while books change status and are deleted, reviews are    *)
(* posted and cached responses expire.                                     *)
(***************************************************************************)
StatusParams == {"", "available"}

GetBookLists == \E cred \in OpenCredentials, status \in StatusParams : BookList(cred, status)
SetBookStatus ==
    \E id \in DOMAIN books, status \in {"available", "out_of_stock"} :
        BookUpdate(Token(1), id,
                   [has |-> {"status"}, author |-> 0, categories |-> {},
                    publisher |-> 0, status |-> status], TRUE)

CacheInit == InitStore(1, 1, MaxBooks, Sequences(MaxBooks, MaxReviewId))

CacheNext ==
    \/ GetBookLists
    \/ ExpireCache
    \/ SetBookStatus
    \/ PostReview(RatingFull)
    \/ DeleteBook

CacheSpec == CacheInit /\ [][CacheNext]_vars

(***************************************************************************)
(* The writer specification: PATCH /authors/{id}/ is two steps, the read   *)
(* of the row with the validation and the save, and other PATCHes of the   *)
(* same author run between them.                                           *)
(***************************************************************************)
WriterBodies ==
    {[has |-> {"first_name"}, email |-> "", first_name |-> n, last_name |-> ""] :
        n \in {"Johnny", "John"}}
    \cup {[has |-> {"last_name"}, email |-> "", first_name |-> "", last_name |-> n] :
        n \in {"Smith", "Doe"}}
    \cup {[has |-> {"email"}, email |-> "jane@example.com", first_name |-> "",
           last_name |-> ""]}

ReadAuthor ==
    \E cred \in OpenCredentials, id \in Targets(authors), p \in WriterBodies :
        AuthorUpdateRead(cred, id, p, TRUE)
SaveAuthor == \E i \in 1..Len(pending) : AuthorUpdateSave(i)

WriterInit == InitStore(1, 1, 0, Sequences(0, 1))

WriterNext ==
    \/ ReadAuthor
    \/ SaveAuthor

WriterSpec == WriterInit /\ [][WriterNext]_vars

(***************************************************************************)
(* The deployment specification: wait_for_db runs while the database goes  *)
(* down and comes up, and createsuperuser is run any number of times with  *)
(* and without each option.  DeploySpec is the safety part; WaitSpec adds  *)
(* that the script keeps running: a connection attempt ends (success,      *)
(* refusal or the 3 second timeout) and so does the 2 second sleep.        *)
(***************************************************************************)
SuperuserOptions ==
    [username : 0..MaxUsers, email : {0, MaxUsers},
     password : {"", "testpass123", "NewSecurePass456!"}]

RunCreateSuperuser == \E o \in SuperuserOptions : createsuperuser(o)

DeployInit ==
    /\ users = Empty
    /\ tokens = {}
    /\ nextKey = 1
    /\ authors = Empty
    /\ categories = Empty
    /\ publishers = Empty
    /\ books = Empty
    /\ reviews = Empty
    /\ nextId = [user |-> 1, author |-> 1, category |-> 1, publisher |-> 1,
                 book |-> 1, review |-> 1]
    /\ pending = <<>>
    /\ cache = Empty
    /\ response = NoResponse
    /\ database \in {"up", "down"}
    /\ script = ScriptStart

DeployNext ==
    \/ WaitConnect
    \/ WaitSleep
    \/ DatabaseChange
    \/ RunCreateSuperuser

DeploySpec == DeployInit /\ [][DeployNext]_vars

WaitSpec ==
    /\ DeployInit
    /\ [][DeployNext]_vars
    /\ WF_vars(WaitConnect)
    /\ WF_vars(WaitSleep)

(***************************************************************************)
(* The session specification: one user, who has no token at first, logs    *)
(* in and out and changes the password, with a token, with a session       *)
(* cookie or with no credentials.                                          *)
(***************************************************************************)
SessionCredentials ==
    Credentials \cup {Session(1, raw) : raw \in {"testpass123", "NewSecurePass456!"}}

SessionLogin == \E p \in AccountLoginBodies : login_user(NoCredentials, "POST", p)
SessionLogout == \E cred \in SessionCredentials : logout_user(cred)
SessionChangePassword ==
    \E cred \in SessionCredentials, p \in PasswordChangeBodies :
        /\ p.has # {} /\ p.new_password # "12345678"
           /\ p.new_password_confirm = "NewSecurePass456!"
        /\ change_password(cred, p)
SessionProfile == \E cred \in SessionCredentials : user_profile(cred)

SessionInit == InitStore(1, 0, 0, Sequences(0, 1))

SessionNext ==
    \/ SessionLogin
    \/ SessionLogout
    \/ SessionChangePassword
    \/ SessionProfile

SessionSpec == SessionInit /\ [][SessionNext]_vars

(***************************************************************************)
(* The interleaving specification: registrations and password changes are  *)
(* handled in steps (validation, then the writes one by one), and logins,  *)
(* logouts and the steps of other requests run between them.  The          *)
(* database starts without users.                                          *)
(***************************************************************************)
InterleavedRegistrations ==
    {[has |-> RegistrationFields, username |-> n, email |-> e,
      password |-> "testpass123", password_confirm |-> "testpass123"] :
        n \in 1..MaxUserId, e \in 1..MaxUserId}

InterleavedPasswordChange ==
    [has |-> {"old_password", "new_password", "new_password_confirm"},
     old_password |-> "testpass123", new_password |-> "NewSecurePass456!",
     new_password_confirm |-> "NewSecurePass456!"]

BeginRegister == \E p \in InterleavedRegistrations : RegisterValidate(NoCredentials, p)
EndRegister == \E i \in 1..Len(pending) : RegisterSave(i)
BeginChangePassword ==
    \E cred \in Credentials \cup {Session(1, "testpass123")} :
        ChangePasswordSave(cred, InterleavedPasswordChange)
DeleteOldToken == \E i \in 1..Len(pending) : ChangePasswordDelete(i)
CreateNewToken == \E i \in 1..Len(pending) : ChangePasswordCreate(i)
InterleavedLogin ==
    \E n \in 1..MaxUserId, raw \in {"testpass123", "NewSecurePass456!"} :
        login_user(NoCredentials, "POST",
                   [has |-> {"username", "password"}, username |-> n, password |-> raw])

InterleavedInit == InitStore(0, 0, 0, Sequences(0, 1))

InterleavedNext ==
    \/ BeginRegister
    \/ EndRegister
    \/ BeginChangePassword
    \/ DeleteOldToken
    \/ CreateNewToken
    \/ InterleavedLogin
    \/ Logout

InterleavedSpec == InterleavedInit /\ [][InterleavedNext]_vars

(***************************************************************************)
(* Properties.                                                             *)
(***************************************************************************)
\* The stored entities: every table, without the sequences and the cache.
store == <<users, tokens, authors, categories, publishers, books, reviews>>

\* The exchange r was answered with a success status.
Succeeded(r) == r.status \in {200, 201, 204}

\* The exchange r is a request of operation op answered with status.
Answered(r, op, status) == r.op = op /\ r.status = status

\* The stored reviews of book b.
ReviewsOf(b) == {r \in DOMAIN reviews : reviews[r].book = b}

\* k is the key of a stored token.
KeyIsValid(k) == \E t \in tokens : t.key = k

\* The caller of the request of exchange r, as the current tokens name it.
Caller(r) == Authenticate(r.cred).user

\* The stored reviews other than self that user wrote of book.
ReviewsBy(user, book, self) ==
    {r \in DOMAIN reviews \ {self} :
        reviews[r].user = user /\ reviews[r].book = book}

\* C1: the reviews_count that GET /books/{id}/ returns for a book is the
\* number of stored reviews whose book is that book, in every state that
\* review creates, updates and deletes and book and user deletes reach.
C1_ReviewsCountIsCardinality ==
    (response.op = "book_retrieve" /\ response.status = 200) =>
        response.body.reviews_count = Cardinality(ReviewsOf(response.target))

\* C1 witness: the detail of a book with two reviews was read while another
\* book has none, every review id handed out.
C1_Witness ==
    /\ response.op = "book_retrieve" /\ response.status = 200
    /\ response.body.reviews_count = 2
    /\ \E b \in DOMAIN books : ReviewsOf(b) = {}
    /\ nextId.review > MaxReviewId

\* The exact mean of the ratings of the stored reviews of book b, Null when
\* there is none.
Mean(b) ==
    IF ReviewsOf(b) = {} THEN Null
    ELSE Quotient(SumRatings(ReviewsOf(b)), Cardinality(ReviewsOf(b)))

\* The detail view and a list response computed by the request hold, for
\* each book, a rating that is the given function of the book's mean.
RatingsShown(detail(_), list(_)) ==
    /\ Answered(response, "book_retrieve", 200) =>
           SameNumber(response.body.average_rating, detail(Mean(response.target)))
    /\ (Answered(response, "book_list", 200) /\ ~response.body.cached) =>
           /\ {i.id : i \in response.body.items} = DOMAIN books
           /\ \A i \in response.body.items :
                  SameNumber(i.average_rating, list(Mean(i.id)))

Unrounded(x) == x

\* C2 (amended): average_rating is the arithmetic mean of the ratings of the
\* book's reviews and null when it has none; the detail view returns it
\* unrounded, as does the list view in a response that was not served from
\* the cache.
C2_AverageRatingIsUnroundedMean == RatingsShown(Unrounded, Unrounded)

\* C2 witness: the detail view returned 7/3 for a book with ratings 1, 1, 5.
C2_Witness ==
    /\ Answered(response, "book_retrieve", 200)
    /\ Cardinality(ReviewsOf(response.target)) = 3
    /\ SameNumber(response.body.average_rating, Quotient(7, 3))
    /\ ~SameNumber(response.body.average_rating, Round2(Quotient(7, 3)))

\* C2 as stated: the detail view returns the mean rounded to 2 decimal
\* places, the list view returns it unrounded.
C2_DetailRoundsToTwoPlaces == RatingsShown(Round2, Unrounded)

\* C3: no two stored reviews have the same (book, user); a POST /reviews/
\* whose caller already has a review of the book is not answered with
\* success and stores nothing, also when its save comes after the save of
\* another POST for the same pair; and a PATCH that names a book of which
\* the review's user has another review leaves the reviews as they are.
C3_OneReviewPerBookAndUser ==
    /\ [](\A r1, r2 \in DOMAIN reviews :
              (reviews[r1].book = reviews[r2].book
               /\ reviews[r1].user = reviews[r2].user) => r1 = r2)
    /\ [][(/\ response' # response
           /\ response'.op = "review_create"
           /\ ReviewsBy(Caller(response'), response'.sent.book, NoRow) # {})
              => ~Succeeded(response') /\ reviews' = reviews]_vars
    /\ [][(/\ response' # response
           /\ response'.op = "review_update"
           /\ response'.target \in DOMAIN reviews
           /\ "book" \in response'.sent.has
           /\ ReviewsBy(reviews[response'.target].user, response'.sent.book,
                        response'.target) # {})
              => ~Succeeded(response') /\ reviews' = reviews]_vars

\* C3 witness: a POST that passed validation was refused at its save, the
\* pair being taken by then, while the same user's review of another book
\* went through.
C3_Witness ==
    /\ Answered(response, "review_create", 500)
    /\ ReviewsBy(Caller(response), response.sent.book, NoRow) # {}
    /\ \E b \in DOMAIN books \ {response.sent.book} :
           ReviewsBy(Caller(response), b, NoRow) # {}

\* The request of exchange r is a review create or update whose body
\* carries a rating outside 1..5.
RatingOutOfRange(r) ==
    /\ r.op \in {"review_create", "review_update"}
    /\ "rating" \in r.sent.has
    /\ ~(r.sent.rating \in 1..5)

\* The request of exchange r gets as far as the serializer: its caller is
\* authenticated and, for an update, the review exists and is the caller's.
ReachesValidation(r) ==
    /\ Authenticate(r.cred).ok /\ Caller(r) # AnonymousUser
    /\ r.op = "review_update" =>
           r.target \in DOMAIN reviews /\ reviews[r.target].user = Caller(r)

\* C4: a review create or update with a rating outside 1..5 never succeeds
\* and leaves the stored reviews as they are; when the request gets as far
\* as the serializer it is answered 400 with an error on 'rating'; and every
\* stored review has a rating in 1..5.
C4_RatingOutOfRangeRejected ==
    /\ [](\A r \in DOMAIN reviews : reviews[r].rating \in 1..5)
    /\ [][(response' # response /\ RatingOutOfRange(response'))
              => /\ reviews' = reviews
                 /\ ~Succeeded(response')
                 /\ ReachesValidation(response')
                        => /\ response'.status = 400
                           /\ "rating" \in response'.errors]_vars

\* C4 witness: the owner's PATCH with rating 6 was answered 400 with an
\* error on 'rating', and the review keeps its rating of 5.
C4_Witness ==
    /\ Answered(response, "review_update", 400)
    /\ response.method = "PATCH"
    /\ response.sent.rating = 6
    /\ response.errors = {"rating"}
    /\ response.target \in DOMAIN reviews
    /\ reviews[response.target].rating = 5

\* The request of exchange r is a write to a stored review by an
\* authenticated user; owner says whether the user is the review's.
ReviewWriteBy(r, owner) ==
    /\ r.op \in {"review_update", "review_destroy"}
    /\ r.target \in DOMAIN reviews
    /\ Authenticate(r.cred).ok /\ Caller(r) # AnonymousUser
    /\ (reviews[r.target].user = Caller(r)) = owner

\* C5: a PATCH, PUT or DELETE of a stored review by an authenticated user
\* who is not its owner is answered 403 and leaves every review as it is;
\* by its owner, it is never answered 401, 403 or 404: a DELETE is answered
\* 204 and removes the review, and a PUT or PATCH with a valid body is
\* answered 200 and stores the body's fields, the review's user unchanged.
C5_ReviewWriteOnlyByOwner ==
    /\ [][(response' # response /\ ReviewWriteBy(response', FALSE))
              => response'.status = 403 /\ reviews' = reviews]_vars
    /\ [][(response' # response /\ ReviewWriteBy(response', TRUE))
              => LET r == response'
                     id == r.target
                     valid == /\ ValidateReview(r.sent, r.method = "PATCH") = {}
                              /\ "book" \in r.sent.has =>
                                     ReviewsBy(reviews[id].user, r.sent.book, id) = {}
                 IN /\ r.status \notin {401, 403, 404}
                    /\ r.op = "review_destroy" =>
                           r.status = 204 /\ id \notin DOMAIN reviews'
                    /\ (r.op = "review_update" /\ valid) =>
                           /\ r.status = 200
                           /\ id \in DOMAIN reviews'
                           /\ reviews'[id].user = reviews[id].user
                           /\ \A f \in ReviewFields :
                                  reviews'[id][f] = IF f \in r.sent.has
                                                    THEN r.sent[f]
                                                    ELSE reviews[id][f]
                    /\ \A x \in DOMAIN reviews \ {id} :
                           x \in DOMAIN reviews' /\ reviews'[x] = reviews[x]]_vars

\* C5 witness: a PATCH of a review by a user who is not its owner was
\* answered 403, the review still holding its owner's title.
C5_Witness ==
    /\ Answered(response, "review_update", 403)
    /\ response.method = "PATCH"
    /\ response.sent.title = "Updated Title"
    /\ response.target \in DOMAIN reviews
    /\ reviews[response.target].user # Caller(response)
    /\ reviews[response.target].title = "Great Book"

\* The write requests of the five viewsets.
ViewsetWrites ==
    {e \o "_" \o w : e \in {"author", "category", "publisher", "book", "review"},
                     w \in {"create", "update", "destroy"}}

\* The request of exchange r carries no valid credential: no token, or a
\* key that is no token's.
Unauthenticated(r) == r.cred = NoCredentials \/ ~KeyIsValid(r.cred.key)

\* C6: a POST, PUT, PATCH or DELETE to the author, category, publisher, book
\* or review endpoints without a valid credential is answered 401 and
\* changes no stored entity and no id sequence, whether the id in the URL
\* is a stored row's or not.
C6_UnauthenticatedWriteRefused ==
    [][(/\ response' # response
        /\ response'.op \in ViewsetWrites
        /\ response'.method \in {"POST", "PUT", "PATCH", "DELETE"}
        /\ Unauthenticated(response'))
           => /\ response'.status = 401
              /\ UNCHANGED <<store, nextId>>]_vars

\* C6 witness: a DELETE of a stored book with a key that is no token's was
\* answered 401 and the book is still stored.
C6_Witness ==
    /\ Answered(response, "book_destroy", 401)
    /\ response.cred.kind = "token"
    /\ Unauthenticated(response)
    /\ response.target \in DOMAIN books

\* C7: a PUT, PATCH or DELETE of a stored book by an authenticated user who
\* is not the book's author (IsAuthorOrReadOnly refuses the user) is not
\* answered with success and leaves the books as they are.
C7_BookWriteOnlyByAuthor ==
    [][(/\ response' # response
        /\ response'.op \in {"book_update", "book_destroy"}
        /\ response'.target \in DOMAIN books
        /\ Authenticate(response'.cred).ok
        /\ Caller(response') # AnonymousUser
        /\ ~IsAuthorOrReadOnly(response'.method, Caller(response'),
                               books[response'.target]))
           => ~Succeeded(response') /\ books' = books]_vars

\* C8: every GET of a caller without credentials, the my_reviews parameter
\* included, is answered without 401, 403 or a server error and changes no
\* stored entity.
C8_ReadsAlwaysPermitted ==
    [][(/\ response' # response
        /\ response'.method = "GET"
        /\ response'.cred = NoCredentials)
           => /\ response'.status \notin {401, 403, 500}
              /\ UNCHANGED store]_vars

\* C9: a POST /auth/logout/ answered 200 leaves the request's token T the
\* key of no token, and a key that was issued and is no token's is never a
\* token's again, so T authenticates no later request; a request to logout,
\* change-password or profile without credentials or with such a key is
\* answered 401 and deletes no token.
C9_LogoutInvalidatesToken ==
    /\ [][(response' # response /\ Answered(response', "logout", 200))
              => /\ response'.cred.kind = "token"
                 /\ ~\E t \in tokens' : t.key = response'.cred.key]_vars
    /\ [][\A k \in 1..MaxKey :
              (k < nextKey /\ ~KeyIsValid(k)) => ~\E t \in tokens' : t.key = k]_vars
    /\ [][(/\ response' # response
           /\ response'.op \in {"logout", "change_password", "user_profile"}
           /\ (response'.cred = NoCredentials \/ ~KeyIsValid(response'.cred.key)))
              => response'.status = 401 /\ UNCHANGED tokens]_vars

\* C9 witness: the one key ever issued was logged out (no user was deleted,
\* no password changed), and a later profile request carrying it got 401.
C9_Witness ==
    /\ nextKey = 2 /\ tokens = {} /\ DOMAIN users = 1..MaxUsers
    /\ Answered(response, "user_profile", 401)
    /\ response.cred = Token(1)

\* What a successful change-password step establishes for the caller u whose
\* token had key k.  strict: a login with the old password fails whatever
\* the new password is.
ChangePasswordStep(strict) ==
    \A k \in 1..MaxKey, u \in DOMAIN users :
        (/\ response' # response
         /\ Answered(response', "change_password", 200)
         /\ response'.cred = Token(k)
         /\ [key |-> k, user |-> u] \in tokens)
        => LET p == response'.sent
               n == response'.body.token
           IN /\ u \in DOMAIN users'
              /\ CheckPassword(p.new_password, users'[u].password)
              /\ users'[u].is_active
              /\ n # k
              /\ ~\E t \in tokens' : t.key = k
              /\ {t \in tokens' : t.user = u} = {[key |-> n, user |-> u]}
              /\ (strict \/ p.old_password # p.new_password)
                     => ~CheckPassword(p.old_password, users'[u].password)

\* A login with a username and a password is answered 200, with a valid
\* token of that user, exactly when the password checks against the stored
\* password of the active user of that name.
LoginChecksStoredPassword ==
    (response.op = "login" /\ response.method = "POST"
         /\ response.sent.has # {} /\ response.status # 401)
    => LET p == response.sent
           match == {u \in DOMAIN users :
                        /\ users[u].username = p.username
                        /\ users[u].password = Hash(p.password)
                        /\ users[u].is_active}
       IN IF match = {} THEN response.status = 400
          ELSE /\ response.status = 200
               /\ response.body.user \in match
               /\ [key |-> response.body.token, user |-> response.body.user] \in tokens

\* C10 (amended): a successful POST /auth/change-password/ stores the new
\* password for the caller and rotates the token: the response's token is
\* not the request's, the old key is no token's, the new key is the caller's
\* one token, a login succeeds with the new password, and a login with the
\* old password fails when the old password is not the new one.
C10_ChangePasswordRotatesToken ==
    [][ChangePasswordStep(FALSE)]_vars /\ []LoginChecksStoredPassword

\* C10 witness: after a password change to a different password, a login
\* with the new password returned the rotated token.
C10_Witness ==
    /\ Answered(response, "login", 200)
    /\ response.sent.password = "NewSecurePass456!"
    /\ response.body.token > 1
    /\ nextKey = response.body.token + 1
    /\ users[response.body.user].password # Hash("testpass123")

\* C10 as stated: the same, and a login with the old password fails after
\* every successful change.
C10_LoginWithOldPasswordFails == [][ChangePasswordStep(TRUE)]_vars

\* The fields of the body p of a password change by user u that fail a
\* check: the old password is not u's, the two new passwords differ, the new
\* password fails the password policy.
PasswordChangeFailures(u, p) ==
    {f \in {"old_password", "new_password_confirm", "new_password"} :
        \/ f = "old_password" /\ ~CheckPassword(p.old_password, users[u].password)
        \/ f = "new_password_confirm" /\ p.new_password # p.new_password_confirm
        \/ f = "new_password" /\ ~validate_password(p.new_password)}

\* C11: a POST /auth/change-password/ by an authenticated user with a wrong
\* old password, mismatching new passwords or a new password that fails the
\* password policy is answered 400 with an error on the field of the first
\* check that fails (old_password, then new_password_confirm, then
\* new_password) and leaves every password and token as it is; without
\* credentials the request is answered 401 and changes nothing either.
C11_PasswordChangeFailureLeavesAccount ==
    /\ [][\A k \in 1..MaxKey, u \in DOMAIN users :
              (/\ response' # response
               /\ response'.op = "change_password"
               /\ response'.cred = Token(k)
               /\ [key |-> k, user |-> u] \in tokens
               /\ response'.sent.has # {}
               /\ PasswordChangeFailures(u, response'.sent) # {})
              => LET failed == PasswordChangeFailures(u, response'.sent) IN
                 /\ response'.status = 400
                 /\ response'.errors =
                        IF "old_password" \in failed THEN {"old_password"}
                        ELSE IF "new_password_confirm" \in failed
                        THEN {"new_password_confirm"}
                        ELSE {"new_password"}
                 /\ UNCHANGED <<users, tokens>>]_vars
    /\ [][(/\ response' # response
           /\ response'.op = "change_password"
           /\ response'.cred = NoCredentials)
              => response'.status = 401 /\ UNCHANGED <<users, tokens>>]_vars

\* C11 witness: a password change with the right old password and an
\* all-digit new password, given twice, was answered 400 with an error on
\* new_password; the caller's token and password are as before.
C11_Witness ==
    /\ Answered(response, "change_password", 400)
    /\ response.errors = {"new_password"}
    /\ response.sent.new_password = "12345678"
    /\ response.sent.new_password_confirm = "12345678"
    /\ KeyIsValid(response.cred.key)
    /\ users[Caller(response)].password = Hash(response.sent.old_password)

\* The request of exchange r passes authentication: it carries no
\* credentials, or the key of a token of an active user.
PassesAuthentication(r) == Authenticate(r.cred).ok

\* The fields of a registration body p that fail a check: left out, a
\* username or an email that a stored user holds, a confirmation that
\* differs from the password, a password the password policy rejects.
RegistrationFailures(p) ==
    {f \in RegistrationFields :
        \/ f \notin p.has
        \/ f = "username" /\ \E u \in DOMAIN users : users[u].username = p.username
        \/ f = "email" /\ \E u \in DOMAIN users : users[u].email = p.email
        \/ f = "password_confirm" /\ p.password # p.password_confirm
        \/ f = "password" /\ ~validate_password(p.password)}

\* The failures of p that the field validation finds, before validate().
RegistrationFieldFailures(p) ==
    {f \in RegistrationFields :
        \/ f \notin p.has
        \/ f = "username" /\ \E u \in DOMAIN users : users[u].username = p.username
        \/ f = "email" /\ \E u \in DOMAIN users : users[u].email = p.email}

\* C12: a POST /auth/register/ that reuses a stored username or email,
\* leaves out a required field, gives two different passwords or a password
\* the policy rejects is answered 400 with errors keyed by offending fields
\* only (every omitted or taken field when there is one, else
\* password_confirm for a mismatch, else password), and creates no user and
\* no token.
C12_RegistrationFailureCreatesNothing ==
    [][(/\ response' # response
        /\ response'.op = "register" /\ response'.method = "POST"
        /\ PassesAuthentication(response')
        /\ RegistrationFailures(response'.sent) # {})
           => LET p == response'.sent IN
              /\ response'.status = 400
              /\ response'.errors # {}
              /\ response'.errors \subseteq RegistrationFailures(p)
              /\ response'.errors =
                     IF RegistrationFieldFailures(p) # {}
                     THEN RegistrationFieldFailures(p)
                     ELSE IF p.password # p.password_confirm
                     THEN {"password_confirm"}
                     ELSE {"password"}
              /\ UNCHANGED <<users, tokens, nextKey, nextId>>]_vars

\* C12 witness: a registration with a new username, the email of the stored
\* user and a valid password given twice was answered 400 with an error on
\* email alone; there is one user still, and no token.
C12_Witness ==
    /\ Answered(response, "register", 400)
    /\ response.errors = {"email"}
    /\ response.sent.has = RegistrationFields
    /\ \E u \in DOMAIN users : users[u].email = response.sent.email
    /\ DOMAIN users = {1} /\ tokens = {} /\ nextKey = 1

\* C13: a POST /auth/register/ answered 201 has created exactly one user,
\* with the username and email of the body, and exactly one token, of that
\* user, with a key never issued before, which the response returns; a
\* GET /auth/profile/ with the key of a stored token of an active user is
\* answered 200 with that user's username and email; and a stored token
\* leaves the table only by a logout or a password change with its key (or
\* with its user, deleted in the admin).
C13_RegistrationIssuesWorkingToken ==
    /\ [][(response' # response /\ Answered(response', "register", 201))
              => LET id == response'.body.user
                     n == response'.body.token
                 IN /\ id \notin DOMAIN users
                    /\ DOMAIN users' = DOMAIN users \cup {id}
                    /\ \A u \in DOMAIN users : users'[u] = users[u]
                    /\ users'[id].username = response'.sent.username
                    /\ users'[id].email = response'.sent.email
                    /\ users'[id].is_active
                    /\ n >= nextKey
                    /\ tokens' = tokens \cup {[key |-> n, user |-> id]}
                    /\ [key |-> n, user |-> id] \notin tokens
                    /\ {t \in tokens' : t.user = id} = {[key |-> n, user |-> id]}]_vars
    /\ [](\A t \in tokens :
              (/\ response.op = "user_profile"
               /\ response.cred = Token(t.key)
               /\ t.user \in DOMAIN users
               /\ users[t.user].is_active)
              => /\ response.status = 200
                 /\ response.body.user = t.user
                 /\ response.body.username = users[t.user].username
                 /\ response.body.email = users[t.user].email)
    /\ [][\A t \in tokens :
              t \notin tokens'
              => \/ /\ response'.op \in {"logout", "change_password"}
                    /\ response'.status = 200
                    /\ response'.cred = Token(t.key)
                 \/ /\ response'.op = "admin_delete_user"
                    /\ response'.target = t.user]_vars

\* C13 witness: the profile of the user that registered was read with the
\* token the registration issued, after the first user logged in.
C13_Witness ==
    /\ Answered(response, "user_profile", 200)
    /\ response.body.user = MaxUserId
    /\ response.cred = Token(2)
    /\ response.body.username = 2 /\ response.body.email = 2
    /\ [key |-> 1, user |-> 1] \in tokens

\* C14: a POST /auth/login/ with the username and the password of an active
\* user is answered 200 with that user and a token of that user: the stored
\* one, the tokens unchanged, when the user has a token, and else a new one,
\* with a key never issued before, that is added to the tokens; with a wrong
\* password, an unknown username or an inactive user it is answered 400 and
\* the tokens are unchanged.
C14_LoginReusesOrCreatesToken ==
    [][(/\ response' # response
        /\ response'.op = "login" /\ response'.method = "POST"
        /\ response'.sent.has # {}
        /\ PassesAuthentication(response'))
           => LET p == response'.sent
                  match == {u \in DOMAIN users :
                               /\ users[u].username = p.username
                               /\ CheckPassword(p.password, users[u].password)
                               /\ users[u].is_active}
              IN IF match = {}
                 THEN response'.status = 400 /\ UNCHANGED <<tokens, nextKey>>
                 ELSE \E u \in match :
                         /\ response'.status = 200
                         /\ response'.body.user = u
                         /\ IF \E t \in tokens : t.user = u
                            THEN /\ UNCHANGED tokens
                                 /\ [key |-> response'.body.token, user |-> u] \in tokens
                            ELSE /\ response'.body.token >= nextKey
                                 /\ tokens' = tokens \cup
                                       {[key |-> response'.body.token, user |-> u]}]_vars

\* C14 witness: the user logged in, logged out and logged in again: the
\* second login created the token with the second key.
C14_Witness ==
    /\ Answered(response, "login", 200)
    /\ response.body.user = 1 /\ response.body.token = 2
    /\ tokens = {[key |-> 2, user |-> 1]} /\ nextKey = 3
    /\ DOMAIN users = {1} /\ users[1].password = Hash("testpass123")

\* C15: a DELETE of an author answered 204 removes the author, every book
\* whose author it is and every review of those books, and leaves every
\* other book and review stored and unchanged; and in every state the author
\* of each stored book is a stored author.
C15_AuthorDeleteCascades ==
    /\ [](\A b \in DOMAIN books : books[b].author \in DOMAIN authors)
    /\ [][(response' # response /\ Answered(response', "author_destroy", 204))
              => LET a == response'.target
                     gone == {b \in DOMAIN books : books[b].author = a}
                 IN /\ a \in DOMAIN authors
                    /\ DOMAIN authors' = DOMAIN authors \ {a}
                    /\ DOMAIN books' = DOMAIN books \ gone
                    /\ \A b \in DOMAIN books' : books'[b] = books[b]
                    /\ DOMAIN reviews' =
                           {r \in DOMAIN reviews : reviews[r].book \notin gone}
                    /\ \A r \in DOMAIN reviews' : reviews'[r] = reviews[r]]_vars

\* C15 witness: an author was deleted, and with it its book and the book's
\* review; the book of the other author and its review are stored.
C15_Witness ==
    /\ Answered(response, "author_destroy", 204)
    /\ response.target = 1
    /\ DOMAIN authors = 2..MaxAuthorId
    /\ DOMAIN books = 2..MaxBooks
    /\ DOMAIN reviews = 2..(MaxReviewId - 1)
    /\ \A b \in DOMAIN books : books[b].author = MaxAuthorId

\* C16: a DELETE of a publisher answered 204 removes the publisher and no
\* book: the books that had it have publisher null and their other fields
\* and categories as before, every other book is unchanged, and so is every
\* review; and in every state the publisher of each stored book is null or
\* a stored publisher.
C16_PublisherDeleteSetsNull ==
    /\ [](\A b \in DOMAIN books :
              books[b].publisher \in DOMAIN publishers \cup {NoRow})
    /\ [][(response' # response /\ Answered(response', "publisher_destroy", 204))
              => LET q == response'.target IN
                 /\ q \in DOMAIN publishers
                 /\ DOMAIN publishers' = DOMAIN publishers \ {q}
                 /\ DOMAIN books' = DOMAIN books
                 /\ \A b \in DOMAIN books :
                        /\ books'[b].publisher =
                               IF books[b].publisher = q THEN NoRow
                               ELSE books[b].publisher
                        /\ books'[b].author = books[b].author
                        /\ books'[b].categories = books[b].categories
                        /\ books'[b].status = books[b].status
                 /\ UNCHANGED <<reviews, authors, categories>>]_vars

\* C16 witness: a publisher was deleted; every book is stored, its book
\* with publisher null, the book of the other publisher as it was, and the
\* reviews are stored.
C16_Witness ==
    /\ Answered(response, "publisher_destroy", 204)
    /\ response.target = 1
    /\ DOMAIN books = 1..MaxBooks
    /\ books[1].publisher = NoRow /\ books[1].author = 1
    /\ books[MaxBooks].publisher = MaxPublisherId
    /\ DOMAIN reviews = 1..(MaxReviewId - 1)

\* C17: in every state each stored review references a stored book and a
\* stored user; a DELETE of a book answered 204 removes the reviews of that
\* book, and the deletion of a user removes the reviews of that user, every
\* other review left as it is.
C17_ReviewsReferenceStoredRows ==
    /\ [](\A r \in DOMAIN reviews :
              reviews[r].book \in DOMAIN books /\ reviews[r].user \in DOMAIN users)
    /\ [][(response' # response /\ Answered(response', "book_destroy", 204))
              => /\ response'.target \notin DOMAIN books'
                 /\ DOMAIN reviews' =
                        {r \in DOMAIN reviews : reviews[r].book # response'.target}
                 /\ \A r \in DOMAIN reviews' : reviews'[r] = reviews[r]]_vars
    /\ [][(response' # response /\ response'.op = "admin_delete_user")
              => /\ response'.target \notin DOMAIN users'
                 /\ DOMAIN reviews' =
                        {r \in DOMAIN reviews : reviews[r].user # response'.target}
                 /\ \A r \in DOMAIN reviews' : reviews'[r] = reviews[r]]_vars

\* C17 witness: both review ids were handed out, a book was deleted, and
\* the one review that is stored is of the other book.
C17_Witness ==
    /\ Answered(response, "book_destroy", 204)
    /\ nextId.review > MaxReviewId
    /\ Cardinality(DOMAIN reviews) = 1
    /\ \A r \in DOMAIN reviews : reviews[r].book \in DOMAIN books

C19_AuthorEmailUnique ==
    /\ [](\A a1, a2 \in DOMAIN authors :
              authors[a1].email = authors[a2].email => a1 = a2)
    /\ [][(/\ response' # response
           /\ response'.op \in {"author_create", "author_update"}
           /\ PassesAuthentication(response')
           /\ Caller(response') # AnonymousUser
           /\ "email" \in response'.sent.has
           /\ response'.op = "author_update" => response'.target \in DOMAIN authors)
              => LET p == response'.sent
                     id == response'.target
                     held == \E a \in DOMAIN authors \ {id} :
                                 authors[a].email = p.email
                 IN IF held
                    THEN /\ response'.status = 400
                         /\ "email" \in response'.errors
                         /\ authors' = authors
                    ELSE /\ "email" \notin response'.errors
                         /\ response'.method = "PATCH" =>
                                /\ response'.status = 200
                                /\ authors'[id].email = p.email]_vars

\* C19 witness: the second author, created with the one email the requests
\* carry, was patched with that email, its own, and the request was answered
\* 200; the first author is stored with another email.
C19_Witness ==
    /\ Answered(response, "author_update", 200)
    /\ response.target = MaxAuthorId
    /\ response.sent.email = authors[MaxAuthorId].email
    /\ 1 \in DOMAIN authors
    /\ authors[1].email # authors[MaxAuthorId].email

\* The books_count of the rows that a list or retrieve response r of the
\* resource holds, by id, is the number of stored books that related(id)
\* holds of.
BooksCountShown(r, resource, table, related(_, _)) ==
    /\ Answered(r, resource \o "_list", 200) =>
           /\ {i.id : i \in r.body.items} = DOMAIN table
           /\ \A i \in r.body.items :
                  i.books_count =
                      Cardinality({b \in DOMAIN books : related(books[b], i.id)})
    /\ Answered(r, resource \o "_retrieve", 200) =>
           /\ r.body.id = r.target
           /\ r.body.books_count =
                  Cardinality({b \in DOMAIN books : related(books[b], r.target)})

\* C20: the books_count that the list and retrieve endpoints return for an
\* author, a category or a publisher is the number of stored books with
\* that author, with that category among their categories, or with that
\* publisher, in every state that book moves and author, category,
\* publisher and book deletes reach.
C20_BooksCountIsCardinality ==
    /\ BooksCountShown(response, "author", authors,
                       LAMBDA book, a : book.author = a)
    /\ BooksCountShown(response, "category", categories,
                       LAMBDA book, c : c \in book.categories)
    /\ BooksCountShown(response, "publisher", publishers,
                       LAMBDA book, q : book.publisher = q)

\* C20 witness: the publishers were listed after a book moved to the last
\* publisher and that publisher was deleted: the first publisher is listed
\* with books_count 0, and every book is stored.
C20_Witness ==
    /\ Answered(response, "publisher_list", 200)
    /\ DOMAIN publishers = {1}
    /\ DOMAIN books = 1..MaxBooks
    /\ \E i \in response.body.items : i.id = 1 /\ i.books_count = 0

(***************************************************************************)
(* C21: GET /reviews/ with my_reviews=true returns exactly the reviews of  *)
(* the requesting user; without the parameter, or with my_reviews=false,   *)
(* the result is not restricted to the requester's reviews: it is every    *)
(* stored review.                                                          *)
(***************************************************************************)
C21_MyReviewsOnlyWhenTrue ==
    /\ Answered(response, "review_list", 200)
    /\ Caller(response) # AnonymousUser
    => /\ response.body.my_reviews = "true"
          => response.body.ids = {r \in DOMAIN reviews :
                                    reviews[r].user = Caller(response)}
       /\ response.body.my_reviews \in {"", "false"}
          => response.body.ids = DOMAIN reviews

(***************************************************************************)
(* C28: the user of a review is the authenticated user who created it: a   *)
(* POST /reviews/ answered 201 stores the caller as user whatever "user"   *)
(* the body names, and no request changes the user of a stored review (a   *)
(* PUT or PATCH that names a user included).                               *)
(***************************************************************************)
C28_ReviewUserIsCreator ==
    [][
        /\ \A r \in DOMAIN reviews \cap DOMAIN reviews' :
             reviews'[r].user = reviews[r].user
        /\ \A r \in DOMAIN reviews' \ DOMAIN reviews :
             /\ response'.op = "review_create" /\ response'.status = 201
             /\ response'.target = r
             /\ reviews'[r].user = Authenticate(response'.cred).user
    ]_vars

\* A PUT or PATCH of the caller's review that names another user was
\* answered 200.
C28_Witness ==
    /\ Answered(response, "review_update", 200)
    /\ "user" \in response.sent.has
    /\ response.sent.user # Caller(response)
    /\ reviews[response.target].user = Caller(response)

(***************************************************************************)
(* C22: GET /books/bestsellers/ returns at most 10 books, each once, in    *)
(* non-increasing order of their number of reviews; no book left out has   *)
(* strictly more reviews than a book of the result; when fewer than 10     *)
(* books exist all of them are returned.                                   *)
(***************************************************************************)
C22_BestsellersTopTen ==
    Answered(response, "book_bestsellers", 200)
    => LET items == response.body.items
           shown == {items[i].id : i \in 1..Len(items)}
       IN /\ Len(items) <= 10
          /\ shown \subseteq DOMAIN books
          /\ Cardinality(shown) = Len(items)
          /\ \A i \in 1..Len(items) :
                items[i].reviews_count = Cardinality(ReviewsOf(items[i].id))
          /\ \A i, j \in 1..Len(items) :
                i < j => items[i].reviews_count >= items[j].reviews_count
          /\ \A b \in DOMAIN books \ shown, i \in 1..Len(items) :
                Cardinality(ReviewsOf(b)) <= items[i].reviews_count
          /\ Cardinality(DOMAIN books) < 10 => shown = DOMAIN books

\* More than 10 books are stored and 10 are returned, the first with more
\* reviews than the last, the last with as many as a book left out.
C22_Witness ==
    /\ Answered(response, "book_bestsellers", 200)
    /\ Cardinality(DOMAIN books) > 10
    /\ Len(response.body.items) = 10
    /\ response.body.items[1].reviews_count > response.body.items[10].reviews_count
    /\ \E b \in DOMAIN books :
          /\ \A i \in 1..10 : response.body.items[i].id # b
          /\ Cardinality(ReviewsOf(b)) = response.body.items[10].reviews_count

(***************************************************************************)
(* C23: the GET /books/ response is cached for a fixed duration, keyed by  *)
(* the request parameters: while a response for the same parameters is     *)
(* stored, a list request receives it whatever was written in between; a   *)
(* request with other parameters is computed on its own; once the          *)
(* duration has elapsed the response is computed from the current store    *)
(* and stored.  A stored response never changes while it is stored.        *)
(***************************************************************************)
C23_ListCachedByParameters ==
    [][
        \A status \in StatusParams :
            LET fresh == {BookListItem(b) : b \in FilterBooks(status)} IN
            /\ /\ response' # response
               /\ Answered(response', "book_list", 200)
               /\ response'.body.status = status
               => IF status \in DOMAIN cache
                  THEN response'.body.items = cache[status] /\ cache' = cache
                  ELSE response'.body.items = fresh
                       /\ cache' = With(cache, status, fresh)
            /\ (status \in DOMAIN cache /\ status \in DOMAIN cache')
               => cache'[status] = cache[status]
            /\ (status \notin DOMAIN cache /\ status \in DOMAIN cache')
               => /\ Answered(response', "book_list", 200)
                  /\ response'.body.status = status
                  /\ response'.body.items = fresh
                  /\ cache'[status] = fresh
    ]_vars

\* A list request was answered from the cache with a response that differs
\* from the list the store gives now, while the response of the other
\* parameters is stored as well and differs.
C23_Witness ==
    /\ Answered(response, "book_list", 200)
    /\ response.body.cached
    /\ response.body.items # {BookListItem(b) : b \in FilterBooks(response.body.status)}
    /\ DOMAIN cache = StatusParams
    /\ cache[""] # cache["available"]

(***************************************************************************)
(* C24: concurrent writers to the same entity are serialized, so that no   *)
(* accepted update is lost: an update answered 200 leaves the author as    *)
(* the request executed whole at the moment of its save would, the fields  *)
(* it names set and every other field as stored just before; the stored    *)
(* author is then the result of the accepted requests one after the other  *)
(* in the order of their saves.                                            *)
(***************************************************************************)
C24_NoLostUpdate ==
    [][\A a \in DOMAIN authors :
          /\ authors' # authors
          /\ Answered(response', "author_update", 200)
          /\ response'.target = a
          => authors'[a] = MergeAuthor(authors[a], response'.sent)]_vars

(***************************************************************************)
(* C25: wait_for_db returns only after a connection attempt succeeded;     *)
(* after a failed attempt it sleeps and tries again, with no limit on the  *)
(* number of attempts: it has not returned while the database has been     *)
(* unreachable all along, and it returns once the database stays           *)
(* reachable, however many attempts failed before.                         *)
(***************************************************************************)
C25_WaitReturnsIffConnected ==
    /\ [][/\ (script'.pc = "returned" /\ script.pc # "returned")
               => script.pc = "connect" /\ database = "up"
          /\ (script.pc = "connect" /\ script' # script /\ database = "down")
               => script'.pc = "sleep"
          /\ (script.pc = "connect" /\ script' # script /\ database = "up")
               => script'.pc = "returned"
          /\ (script.pc = "sleep" /\ script' # script) => script'.pc = "connect"
          /\ script.pc = "returned" => script'.pc = "returned"]_vars
    /\ [](database = "down") => [](script.pc # "returned")
    /\ <>[](database = "up") => <>(script.pc = "returned")

\* wait_for_db returned after all the attempts that are counted.
C25_Witness ==
    /\ script.pc = "returned"
    /\ script.attempts = MaxAttempts

(***************************************************************************)
(* C26: createsuperuser is idempotent: run any number of times with the    *)
(* same username and a password it leaves exactly one user with that       *)
(* username; a run never changes a user that exists (password, email,      *)
(* flags), and a run for a username that exists ends well; run without a   *)
(* username or without a password it creates no user.                      *)
(***************************************************************************)
C26_CreateSuperuserIdempotent ==
    /\ [](\A u, v \in DOMAIN users : users[u].username = users[v].username => u = v)
    /\ [][/\ \A u \in DOMAIN users : u \in DOMAIN users' /\ users'[u] = users[u]
          /\ \A u \in DOMAIN users' \ DOMAIN users :
               /\ Answered(response', "createsuperuser", 0)
               /\ response'.sent.username # 0 /\ response'.sent.password # ""
               /\ users'[u] = NewSuperuser(response'.sent)
          /\ \A o \in SuperuserOptions :
               /\ response' # response
               /\ response'.op = "createsuperuser" /\ response'.sent = o
               => /\ (o.username = 0 \/ o.password = "") => users' = users
                  /\ (o.username # 0 /\ o.password # "" /\ database = "up")
                     => /\ response'.status = 0
                        /\ Cardinality({u \in DOMAIN users' :
                                           users'[u].username = o.username}) = 1
                        /\ UsernameExists(o.username) => users' = users]_vars

\* A second run for the username of a stored superuser, with another
\* password and email, was skipped.
C26_Witness ==
    /\ Answered(response, "createsuperuser", 0)
    /\ response.body.out = "skipping"
    /\ \E u \in DOMAIN users :
          /\ users[u].username = response.sent.username
          /\ users[u].password # Hash(response.sent.password)
          /\ users[u].email # response.sent.email
          /\ users[u].is_superuser

(***************************************************************************)
(* C30: change-password is all-or-nothing: after a POST                    *)
(* /auth/change-password/ whose response is not a 200 carrying a new       *)
(* token, the caller's stored password is the same as before the request,  *)
(* also for a caller authenticated by session who has no token.            *)
(***************************************************************************)
C30_ChangePasswordAllOrNothing ==
    [][\A u \in DOMAIN users :
          /\ response' # response
          /\ response'.op = "change_password"
          /\ Authenticate(response'.cred).user = u
          /\ ~(response'.status = 200 /\ "token" \in DOMAIN response'.body)
          => /\ u \in DOMAIN users'
             /\ users'[u].password = users[u].password]_vars

(***************************************************************************)
(* C27: in every state reachable by any interleaving of register, login,   *)
(* logout and change-password requests each user has at most one token,    *)
(* each token belongs to exactly one stored user, and a request bearing    *)
(* the key of a stored token is authenticated as that token's user and as  *)
(* no other.                                                               *)
(***************************************************************************)
C27_OneTokenPerUser ==
    /\ \A u \in DOMAIN users : Cardinality(TokensOf(u)) <= 1
    /\ \A t \in tokens : t.user \in DOMAIN users
    /\ \A t1, t2 \in tokens : t1.key = t2.key => t1 = t2
    /\ \A t \in tokens : Authenticate(Token(t.key)) = [ok |-> TRUE, user |-> t.user]

\* Two password changes of one user ran interleaved: the second could not
\* create its token, while the user has the token of the first.
C27_Witness ==
    /\ Answered(response, "change_password", 500)
    /\ response.cred.kind = "token"
    /\ \E u \in DOMAIN users :
          /\ Cardinality(TokensOf(u)) = 1
          /\ users[u].password = Hash(response.sent.new_password)
    /\ Cardinality(tokens) = Cardinality(DOMAIN users)
    /\ Cardinality(DOMAIN users) = MaxUserId

(***************************************************************************)
(* C29: no two users created through POST /auth/register/ share an email   *)
(* in any reachable state, also when two registrations with the same       *)
(* email and different usernames are handled concurrently.                 *)
(***************************************************************************)
C29_RegisteredEmailsUnique ==
    \A u, v \in DOMAIN users : users[u].email = users[v].email => u = v

====
